---- MODULE Spec2Model ----
(***************************************************************************)
(* Model of FormControlElement (src/src/form-control-element.ts, the class *)
(* returned by getFormControlElement) together with the DOM it lives in:   *)
(* the host elements, their owning forms, the native controls inside their *)
(* shadow trees and native radio/checkbox inputs in the light DOM.         *)
(*                                                                         *)
(* Text is modelled as a sequence of one-character strings, so that        *)
(* String(), Number(), length, replace and RegExp.test are computed and    *)
(* not assumed.  JS numbers are fixed-point integers scaled by SCALE.      *)
(***************************************************************************)
EXTENDS Integers, Sequences, FiniteSets, TLC

(* ------------------------------ bounds -------------------------------- *)
\* number of host elements (FormControlElement instances) in the document
NumElems == 2

(* ------------------------------- text --------------------------------- *)
\* JS null in a slot that otherwise holds text
Null == <<"null">>
\* JS null in a slot that otherwise holds an enumerated string (role, aria-*)
Nil == "<null>"
\* null in the numeric slots #minLength / #maxLength
NullLen == 0 - 1

DigitChars == <<"0", "1", "2", "3", "4", "5", "6", "7", "8", "9">>
IsDigit(c) == \E k \in 1..10 : DigitChars[k] = c
DigitVal(c) == (CHOOSE k \in 1..10 : DigitChars[k] = c) - 1

\* fixed-point scale of the number model: two fractional digits
SCALE == 10 * 10
NaN == [nan |-> TRUE, v |-> 0]
Num(n) == [nan |-> FALSE, v |-> n]
IsNaN(x) == x.nan
\* JS relational operators: any comparison with NaN is false
Lt(a, b) == ~a.nan /\ ~b.nan /\ a.v < b.v
Gt(a, b) == ~a.nan /\ ~b.nan /\ a.v > b.v
Le(a, b) == ~a.nan /\ ~b.nan /\ a.v <= b.v
\* JS strict equality on numbers: NaN === NaN is false
NumEq(a, b) == ~a.nan /\ ~b.nan /\ a.v = b.v
Plus(a, b) == IF a.nan \/ b.nan THEN NaN ELSE Num(a.v + b.v)
Abs(n) == IF n < 0 THEN 0 - n ELSE n
\* a % b !== 0 in JS: x % 0 is NaN, and NaN !== 0 holds
RemNonZero(a, b) ==
    IF a.nan \/ b.nan THEN TRUE
    ELSE IF b.v = 0 THEN TRUE
    ELSE (Abs(a.v) % Abs(b.v)) # 0

RECURSIVE DigitsValue(_)
DigitsValue(s) ==
    IF s = <<>> THEN 0
    ELSE DigitsValue(SubSeq(s, 1, Len(s) - 1)) * 10 + DigitVal(s[Len(s)])

FirstIndex(s, c) ==
    IF \E k \in 1..Len(s) : s[k] = c
    THEN CHOOSE k \in 1..Len(s) : s[k] = c /\ \A j \in 1..(k - 1) : s[j] # c
    ELSE 0

\* the fraction digits as hundredths: ".5" -> 50, ".02" -> 2, "" -> 0
FracValue(f) ==
    IF Len(f) = 0 THEN 0
    ELSE IF Len(f) = 1 THEN DigitVal(f[1]) * 10
    ELSE DigitVal(f[1]) * 10 + DigitVal(f[2])

\* the value of a decimal literal given its sign, integer digits and
\* fraction digits; NaN when it is no decimal literal
DecimalValue(neg, int, frac) ==
    IF ~(/\ \A k \in 1..Len(int) : IsDigit(int[k])
         /\ \A k \in 1..Len(frac) : IsDigit(frac[k])
         /\ Len(int) + Len(frac) > 0)
    THEN NaN
    ELSE Num((IF neg THEN 0 - 1 ELSE 1) * (DigitsValue(int) * SCALE + FracValue(frac)))

\* a literal without its sign, split at the first dot (dot = 0: no dot)
SplitAtDot(neg, body, dot) ==
    DecimalValue(neg,
                 IF dot = 0 THEN body ELSE SubSeq(body, 1, dot - 1),
                 IF dot = 0 THEN <<>> ELSE SubSeq(body, dot + 1, Len(body)))

Unsigned(neg, body) == SplitAtDot(neg, body, FirstIndex(body, "."))

\* Number(string): "" is 0, a decimal literal is its value, anything else NaN
ToNumber(s) ==
    IF s = <<>> THEN Num(0)
    ELSE Unsigned(s[1] = "-", IF s[1] = "-" THEN Tail(s) ELSE s)

\* Number(x) for a text-or-null value: Number(null) is 0
ValueToNumber(v) == IF v = Null THEN Num(0) ELSE ToNumber(v)

\* String(x) for a text-or-null value: String(null) is "null"
ToStr(v) == IF v = Null THEN <<"n", "u", "l", "l">> ELSE v

RECURSIVE NatToStr(_)
NatToStr(n) ==
    IF n < 10 THEN <<DigitChars[n + 1]>>
    ELSE NatToStr(n \div 10) \o <<DigitChars[(n % 10) + 1]>>

\* String(number): 15 -> "15", 15.5 -> "15.5", 0.05 -> "0.05", NaN -> "NaN"
NumToStr(x) ==
    IF x.nan THEN <<"N", "a", "N">>
    ELSE LET m    == Abs(x.v)
             int  == NatToStr(m \div SCALE)
             f    == m % SCALE
             frac == IF f = 0 THEN <<>>
                     ELSE IF f % 10 = 0 THEN <<".", DigitChars[(f \div 10) + 1]>>
                     ELSE <<".", DigitChars[(f \div 10) + 1], DigitChars[(f % 10) + 1]>>
         IN  (IF x.v < 0 THEN <<"-">> ELSE <<>>) \o int \o frac

\* value.replace('-W', '.'): the first occurrence only
ReplaceWeek(s) ==
    LET hits == {k \in 1..(Len(s) - 1) : s[k] = "-" /\ s[k + 1] = "W"}
    IN  IF hits = {} THEN s
        ELSE LET k == CHOOSE h \in hits : \A g \in hits : h <= g
             IN  SubSeq(s, 1, k - 1) \o <<".">> \o SubSeq(s, k + 2, Len(s))

\* new RegExp(p).test(s) for a pattern of literal characters: an unanchored
\* search for p in s
RegExpTest(p, s) ==
    \E k \in 0..(Len(s) - Len(p)) : SubSeq(s, k + 1, k + Len(p)) = p

\* parseVariables(template, ...values): the template and the values stringified
\* into its placeholders, in order
parseVariables(tpl, args) == <<tpl>> \o args

(* ---------------------------- descriptors ----------------------------- *)
\* FormControlType: an object; keys holds the property names it carries, and
\* a field outside keys is undefined whatever the record shows for it
TEXT_CONTROLS == {"text", "password", "email", "tel", "url", "search", "number"}
RANGE_CONTROLS == {"range", "time", "date", "datetime-local", "month", "week"}
isTextFormControl(d) == d.control \in TEXT_CONTROLS
isRangeOrNumberFormControl(d) == d.control = "number" \/ d.control \in RANGE_CONTROLS

Has(d, k) == k \in d.keys

NoName == "<undefined>"

BlankDescriptor ==
    [control |-> "text", keys |-> {"control"}, value |-> Null, name |-> NoName,
     disabled |-> FALSE, required |-> FALSE, readonly |-> FALSE,
     placeholder |-> <<>>, min |-> <<>>, max |-> <<>>, step |-> <<>>,
     checked |-> FALSE, defaultChecked |-> FALSE, type |-> "button",
     multiple |-> FALSE, accept |-> <<>>,
     pattern |-> <<>>, minLength |-> 0, maxLength |-> 0]

DEFAULT_FORM_CONTROL ==
    [BlankDescriptor EXCEPT
        !.keys = {"control", "value", "disabled", "required", "readonly"}]

\* d.k ?? fallback
OrElse(d, k, v, fallback) == IF Has(d, k) THEN v ELSE fallback

(* --------------------------- validity messages ------------------------ *)
MISSING_MESSAGE == <<"MISSING_MESSAGE">>
RANGE_UNDERFLOW_MESSAGE == "RANGE_UNDERFLOW_MESSAGE"
RANGE_OVERFLOW_MESSAGE == "RANGE_OVERFLOW_MESSAGE"
STEP_MISMATCH_MESSAGE == "STEP_MISMATCH_MESSAGE"
TYPE_MISMATCH_MESSAGE == <<"TYPE_MISMATCH_MESSAGE">>
PATTERN_MISMATCH_MESSAGE == <<"PATTERN_MISMATCH_MESSAGE">>
TOO_LONG_MESSAGE == "TOO_LONG_MESSAGE"
TOO_SHORT_MESSAGE == "TOO_SHORT_MESSAGE"

NoFlags ==
    [valueMissing |-> FALSE, rangeOverflow |-> FALSE, rangeUnderflow |-> FALSE,
     stepMismatch |-> FALSE, badInput |-> FALSE, patternMismatch |-> FALSE,
     tooLong |-> FALSE, tooShort |-> FALSE, customError |-> FALSE]

FlagNames == DOMAIN NoFlags
AnyFlag(f) == \E k \in FlagNames : f[k]

(* ------------------------------ the DOM ------------------------------- *)
Elems == 1..NumElems
\* the native controls that may sit in shadow trees: one per host
InputIds == 1..NumElems
\* native radio/checkbox inputs of the light DOM
NativeIds == {1}
\* the forms of the document
Forms == {1, 2}
NoInput == 0
\* form owners: NoForm is "no form owner" (internals.form === null)
NoForm == 0
NoAttr == "<no attribute>"

BoolStr(b) == IF b THEN "true" ELSE "false"

NewInternals ==
    [role |-> Nil, ariaChecked |-> Nil, ariaRequired |-> Nil, ariaDisabled |-> Nil,
     ariaReadOnly |-> Nil, ariaPressed |-> Nil, ariaExpanded |-> Nil,
     ariaHasPopup |-> Nil, ariaAutoComplete |-> Nil, ariaMultiSelectable |-> Nil,
     ariaMultiLine |-> Nil, ariaPlaceholder |-> Null, ariaValueMin |-> Null,
     ariaValueMax |-> Null, ariaValueNow |-> Null,
     formValue |-> Null, validity |-> NoFlags, validationMessage |-> <<>>]

\* the observed content attributes of a host other than name; Null and FALSE
\* stand for an absent attribute
NoAttrs ==
    [value |-> Null, checked |-> FALSE, disabled |-> FALSE, required |-> FALSE,
     readonly |-> FALSE, placeholder |-> Null, role |-> Nil, min |-> Null,
     max |-> Null, step |-> Null]

\* a FormControlElement right after construction
NewElement ==
    [formControl |-> DEFAULT_FORM_CONTROL, name |-> NoName, initialValue |-> Null,
     valueSource |-> "property", value |-> Null, checkedSource |-> "property",
     accept |-> Null, pattern |-> Null, minLength |-> NullLen, maxLength |-> NullLen,
     input |-> NoInput, internals |-> NewInternals,
     nameAttr |-> NoAttr, attrs |-> NoAttrs, connected |-> FALSE, form |-> NoForm,
     hasShadow |-> TRUE, observing |-> FALSE, observingShadow |-> FALSE,
     mutations |-> FALSE, listeners |-> {}, keydownForms |-> {}]

\* a native control: tag and type, its own value/checked, the properties and
\* attributes the host mirrors into it, and the hosts whose #syncValue listens.
\* The value of a checkbox or radio without a value attribute reads "on".
NewInput(tag, type, hasType) ==
    [tag |-> tag, type |-> type, hasType |-> hasType, host |-> 0,
     value |-> IF tag = "input" /\ type \in {"checkbox", "radio"}
               THEN <<"o", "n">> ELSE <<>>,
     checked |-> FALSE, disabled |-> FALSE, required |-> FALSE,
     readonly |-> FALSE, placeholder |-> Null, min |-> Null, max |-> Null,
     step |-> Null, multiple |-> FALSE, accept |-> Null, pattern |-> Null,
     minLength |-> NullLen, maxLength |-> NullLen, listeners |-> {}]

\* getters
Checked(e) == e.internals.ariaChecked = "true"
Required(e) == e.internals.ariaRequired = "true"
Disabled(e) == e.internals.ariaDisabled = "true"
\* internals.form: the form owner of a connected element
FormOf(e) == IF e.connected THEN e.form ELSE NoForm

Log(S, what, i) == [S EXCEPT !.fx = @ \cup {<<what, i>>}]

(* ----------------------------- validity ------------------------------- *)
\* #convertForComparison without its week branch
ConvertForComparison_NoWeek(d, v) ==
    IF v = Null THEN Num(0) ELSE ToNumber(v)

\* #convertForComparison, for the kinds whose projection is a number
\* (an empty decimal is 0 by its own branch there and by Number("") here)
ConvertForComparison(d, v) ==
    IF v = Null THEN Num(0)
    ELSE ToNumber(IF d.control = "week" THEN ReplaceWeek(v) ELSE v)

DescNumber(d, k, v) == IF Has(d, k) THEN ToNumber(v) ELSE NaN

\* the for loop of #updateValidity: for (i = min; i <= value + step; i += step)
RECURSIVE NearestLoop(_, _, _, _, _, _)
NearestLoop(i, low, high, max, value, step) ==
    IF ~Le(i, Plus(value, step)) THEN [low |-> low, high |-> high]
    ELSE NearestLoop(Plus(i, step),
                     IF Lt(i, value) THEN i ELSE low,
                     IF Gt(i, value) /\ NumEq(high, max) THEN i ELSE high,
                     max, value, step)

\* the loop never ends when the step does not move i past value + step
NearestDiverges(min, value, step) ==
    Le(min, Plus(value, step)) /\ ~step.nan /\ step.v <= 0

NearestValues(min, max, value, step) ==
    NearestLoop(min, min, max, max, value, step)

\* the native control's own validationMessage (the browser's constraint
\* validation of the inner control): non-empty when it is required and empty
NativeValidationMessage(inp) ==
    IF inp.required /\ ~inp.disabled /\ ~inp.readonly /\
       (IF inp.tag = "input" /\ inp.type \in {"checkbox", "radio"}
        THEN ~inp.checked ELSE inp.value = <<>>)
    THEN <<"native: value missing">> ELSE <<>>

\* ElementInternals.setValidity(flags, message, anchor): flags not given are
\* false, and the message is dropped when no flag is true
SetValidity(S, i, flags, message) ==
    Log([S EXCEPT !.els[i].internals.validity = flags,
                  !.els[i].internals.validationMessage =
                        IF AnyFlag(flags) THEN message ELSE <<>>],
        "setValidity", i)

\* the numbers object of #updateValidity
Numbers(e) ==
    IF e.formControl.control = "number"
    THEN [min   |-> DescNumber(e.formControl, "min", e.formControl.min),
          max   |-> DescNumber(e.formControl, "max", e.formControl.max),
          step  |-> DescNumber(e.formControl, "step", e.formControl.step),
          value |-> ValueToNumber(e.value)]
    ELSE [min |-> NaN, max |-> NaN, step |-> NaN, value |-> NaN]

\* the flags of #updateValidity, given what counts as an empty value and the
\* numbers object
FlagsOf(e, d, empty, num) ==
        [valueMissing   |-> e.internals.ariaRequired = "true" /\ empty,
         rangeUnderflow |-> /\ isRangeOrNumberFormControl(d)
                            /\ e.value # Null
                            /\ Has(d, "min")
                            /\ Lt(ConvertForComparison(d, e.value),
                                  ConvertForComparison(d, d.min)),
         rangeOverflow  |-> /\ isRangeOrNumberFormControl(d)
                            /\ e.value # Null
                            /\ Has(d, "max")
                            /\ Gt(ConvertForComparison(d, e.value),
                                  ConvertForComparison(d, d.max)),
         stepMismatch   |-> /\ d.control = "number"
                            /\ e.value # Null
                            /\ Has(d, "step")
                            /\ ~IsNaN(num.min)
                            /\ ~IsNaN(num.step)
                            /\ ~IsNaN(num.value)
                            /\ RemNonZero(num.value, num.step),
         badInput       |-> d.control = "number" /\ IsNaN(num.value),
         patternMismatch |-> /\ isTextFormControl(d)
                             /\ e.pattern # Null
                             /\ ~RegExpTest(e.pattern, ToStr(e.value)),
         tooLong        |-> /\ isTextFormControl(d)
                            /\ e.maxLength # NullLen
                            /\ e.maxLength < Len(ToStr(e.value)),
         tooShort       |-> /\ isTextFormControl(d)
                            /\ e.minLength # NullLen
                            /\ e.minLength > Len(ToStr(e.value)),
         customError    |-> FALSE]

\* the flags when only null counts as empty
ComputedFlags_NullOnly(e) == FlagsOf(e, e.formControl, e.value = Null, Numbers(e))

ComputedFlags(e) ==
    FlagsOf(e, e.formControl, e.value = Null \/ e.value = <<>>, Numbers(e))

\* the step-mismatch message for the nearest values found
NearestMessage(near) ==
    parseVariables(STEP_MISMATCH_MESSAGE, <<NumToStr(near.low), NumToStr(near.high)>>)

StepMessage(e) ==
    NearestMessage(NearestValues(DescNumber(e.formControl, "min", e.formControl.min),
                                 DescNumber(e.formControl, "max", e.formControl.max),
                                 ValueToNumber(e.value),
                                 DescNumber(e.formControl, "step", e.formControl.step)))

StepDiverges(e) ==
    /\ isRangeOrNumberFormControl(e.formControl)
    /\ ComputedFlags(e).stepMismatch
    /\ NearestDiverges(DescNumber(e.formControl, "min", e.formControl.min),
                       ValueToNumber(e.value),
                       DescNumber(e.formControl, "step", e.formControl.step))

\* a message selection in which the first true flag keeps the message
FirstMessage(e, d, f, rn) ==
    IF f.valueMissing THEN MISSING_MESSAGE
    ELSE IF rn /\ f.rangeUnderflow
         THEN parseVariables(RANGE_UNDERFLOW_MESSAGE, <<d.min>>)
    ELSE IF rn /\ f.rangeOverflow
         THEN parseVariables(RANGE_OVERFLOW_MESSAGE, <<d.max>>)
    ELSE IF rn /\ f.stepMismatch THEN StepMessage(e)
    ELSE IF f.badInput THEN TYPE_MISMATCH_MESSAGE
    ELSE IF f.patternMismatch THEN PATTERN_MISMATCH_MESSAGE
    ELSE IF f.tooLong
         THEN parseVariables(TOO_LONG_MESSAGE, <<NatToStr(e.maxLength)>>)
    ELSE IF f.tooShort
         THEN parseVariables(TOO_SHORT_MESSAGE, <<NatToStr(e.minLength)>>)
    ELSE <<>>

ComputedMessage_FirstWins(e) ==
    FirstMessage(e, e.formControl, ComputedFlags(e),
                 isRangeOrNumberFormControl(e.formControl))

\* a message selection that visits the three text constraints in the order
\* tooShort, tooLong, patternMismatch
MessageOf_PatternLast(e, d, f, rn) ==
    LET m5 == FirstMessage(e, d, [f EXCEPT !.patternMismatch = FALSE, !.tooLong = FALSE,
                                           !.tooShort = FALSE], rn)
        m6 == IF f.tooShort
              THEN parseVariables(TOO_SHORT_MESSAGE, <<NatToStr(e.minLength)>>) ELSE m5
        m7 == IF f.tooLong
              THEN parseVariables(TOO_LONG_MESSAGE, <<NatToStr(e.maxLength)>>) ELSE m6
    IN  IF f.patternMismatch THEN PATTERN_MISMATCH_MESSAGE ELSE m7

\* the message selection of #updateValidity for flags f: every true flag in
\* turn overwrites the message chosen so far
MessageOf(e, d, f, rn) ==
    LET m1 == IF f.valueMissing THEN MISSING_MESSAGE ELSE <<>>
        m2 == IF rn /\ f.rangeUnderflow
              THEN parseVariables(RANGE_UNDERFLOW_MESSAGE, <<d.min>>) ELSE m1
        m3 == IF rn /\ f.rangeOverflow
              THEN parseVariables(RANGE_OVERFLOW_MESSAGE, <<d.max>>) ELSE m2
        m4 == IF rn /\ f.stepMismatch THEN StepMessage(e) ELSE m3
        m5 == IF f.badInput THEN TYPE_MISMATCH_MESSAGE ELSE m4
        m6 == IF f.patternMismatch THEN PATTERN_MISMATCH_MESSAGE ELSE m5
        m7 == IF f.tooLong
              THEN parseVariables(TOO_LONG_MESSAGE, <<NatToStr(e.maxLength)>>) ELSE m6
        m8 == IF f.tooShort
              THEN parseVariables(TOO_SHORT_MESSAGE, <<NatToStr(e.minLength)>>) ELSE m7
    IN  m8

ComputedMessage(e) ==
    MessageOf(e, e.formControl, ComputedFlags(e),
              isRangeOrNumberFormControl(e.formControl))

\* #updateValidity.  A spread of input.validity copies no flag (the flags of a
\* ValidityState are accessors of its prototype), so the flags that reach
\* setValidity are the computed ones.
ReportValidity(S, i, validity, message) ==
    LET input == S.els[i].input
    IN  IF input = NoInput THEN SetValidity(S, i, validity, message)
        ELSE SetValidity(S, i, validity,
                         IF message # <<>> THEN message
                         ELSE NativeValidationMessage(S.inputs[input]))

UpdateValidity(S, i) ==
    IF StepDiverges(S.els[i]) THEN [S EXCEPT !.hung = TRUE]
    ELSE ReportValidity(S, i, ComputedFlags(S.els[i]), ComputedMessage(S.els[i]))

\* a setCustomValidity that raises customError whatever the message is
SetCustomValidity_Always(S, i, message) ==
    SetValidity(S, i, [NoFlags EXCEPT !.customError = TRUE], message)

\* setCustomValidity(message): the spread of the input's validity copies no
\* flag, so customError is the only flag given
SetCustomValidity(S, i, message) ==
    SetValidity(S, i, [NoFlags EXCEPT !.customError = message # <<>>], message)

(* ------------------------------ setters ------------------------------- *)
\* Call(S, method, i, arg): host i runs one of its methods from state S.  Every
\* method that runs other methods runs them through Call.
RECURSIVE Call(_, _, _, _)

\* set name: the attribute follows the property, and the attribute change
\* calls back into #name with the same string
SetName(S, i, v) ==
    [S EXCEPT !.els[i].name = v,
              !.els[i].nameAttr = IF v = NoName THEN NoAttr ELSE v]

SetDisabled(S, i, b) ==
    LET inp == S.els[i].input
        S1  == [S EXCEPT !.els[i].internals.ariaDisabled = BoolStr(b)]
    IN  IF inp # NoInput THEN [S1 EXCEPT !.inputs[inp].disabled = b] ELSE S1

SetRequired(S, i, b) ==
    LET inp == S.els[i].input
        S1  == [S EXCEPT !.els[i].internals.ariaRequired = BoolStr(b)]
        S2  == IF inp # NoInput THEN [S1 EXCEPT !.inputs[inp].required = b] ELSE S1
    IN  Call(S2, "UpdateValidity", i, Null)

SetReadOnly(S, i, b) ==
    LET inp == S.els[i].input
        S1  == IF inp # NoInput THEN [S EXCEPT !.inputs[inp].readonly = b] ELSE S
    IN  [S1 EXCEPT !.els[i].internals.ariaReadOnly = BoolStr(b)]

SetPlaceholder(S, i, v) ==
    LET inp == S.els[i].input
        S1  == IF inp # NoInput THEN [S EXCEPT !.inputs[inp].placeholder = v] ELSE S
    IN  [S1 EXCEPT !.els[i].internals.ariaPlaceholder = v]

SetMin(S, i, v) ==
    LET inp == S.els[i].input
        S1  == IF inp # NoInput THEN [S EXCEPT !.inputs[inp].min = v] ELSE S
        S2  == [S1 EXCEPT !.els[i].internals.ariaValueMin = v]
    IN  Call(S2, "UpdateValidity", i, Null)

SetMax(S, i, v) ==
    LET inp == S.els[i].input
        S1  == IF inp # NoInput THEN [S EXCEPT !.inputs[inp].max = v] ELSE S
        S2  == [S1 EXCEPT !.els[i].internals.ariaValueMax = v]
    IN  Call(S2, "UpdateValidity", i, Null)

SetStep(S, i, v) ==
    LET inp == S.els[i].input
        S1  == IF inp # NoInput THEN [S EXCEPT !.inputs[inp].step = v] ELSE S
        S2  == [S1 EXCEPT !.els[i].internals.ariaValueNow = v]
    IN  Call(S2, "UpdateValidity", i, Null)

SetAccept(S, i, v) ==
    LET inp == S.els[i].input
        S1  == IF inp # NoInput /\ S.inputs[inp].tag = "input" /\ v # Null
               THEN [S EXCEPT !.inputs[inp].accept = v] ELSE S
    IN  [S1 EXCEPT !.els[i].accept = v]

SetMultiple(S, i, b) ==
    LET inp == S.els[i].input
        allowsMultiple == S.els[i].formControl.control \in {"file", "select"}
        S1  == IF inp # NoInput /\ allowsMultiple
               THEN [S EXCEPT !.inputs[inp].multiple = b] ELSE S
    IN  [S1 EXCEPT !.els[i].internals.ariaMultiSelectable = BoolStr(b)]

SetPattern(S, i, v) ==
    LET inp == S.els[i].input
        S1  == IF inp # NoInput /\ S.inputs[inp].tag = "input" /\ v # Null
               THEN [S EXCEPT !.inputs[inp].pattern = v] ELSE S
        S2  == [S1 EXCEPT !.els[i].pattern = v]
    IN  Call(S2, "UpdateValidity", i, Null)

SetMinLength(S, i, n) ==
    LET inp == S.els[i].input
        S1  == IF inp # NoInput /\ S.inputs[inp].tag = "input" /\ n # NullLen
               THEN [S EXCEPT !.inputs[inp].minLength = n] ELSE S
        S2  == [S1 EXCEPT !.els[i].minLength = n]
    IN  Call(S2, "UpdateValidity", i, Null)

SetMaxLength(S, i, n) ==
    LET inp == S.els[i].input
        S1  == IF inp # NoInput /\ S.inputs[inp].tag = "input" /\ n # NullLen
               THEN [S EXCEPT !.inputs[inp].maxLength = n] ELSE S
        S2  == [S1 EXCEPT !.els[i].maxLength = n]
    IN  Call(S2, "UpdateValidity", i, Null)

SetRole(S, i, v) == [S EXCEPT !.els[i].internals.role = v]

\* input.value = v on the native control: null becomes the empty string
WriteInputValue(S, i, v) ==
    LET inp == S.els[i].input
    IN  Log([S EXCEPT !.inputs[inp].value = IF v = Null THEN <<>> ELSE v],
            "input.value", i)

\* a value store that does not put the disabled state back
StoreValue_LeaveEnabled(S, i, newValue) ==
    LET prevDisabled == Disabled(S.els[i])
        S2 == Log([SetDisabled(S, i, FALSE) EXCEPT !.els[i].internals.formValue = newValue,
                                                  !.els[i].value = newValue],
                  "setFormValue", i)
        S4 == IF prevDisabled THEN Log(S2, "warn", i) ELSE S2
    IN  Call(S4, "UpdateValidity", i, Null)

\* set value, past its first line
StoreValue(S, i, newValue) ==
    LET prevDisabled == Disabled(S.els[i])
        S1 == SetDisabled(S, i, FALSE)
        S2 == Log([S1 EXCEPT !.els[i].internals.formValue = newValue],
                  "setFormValue", i)
        S3 == SetDisabled(S2, i, prevDisabled)
        S4 == IF prevDisabled THEN Log(S3, "warn", i) ELSE S3
        S5 == [S4 EXCEPT !.els[i].value = newValue]
        S6 == IF S5.els[i].input # NoInput /\ S5.els[i].valueSource # "input"
              THEN WriteInputValue(S5, i, newValue) ELSE S5
        S7 == Call(S6, "UpdateValidity", i, Null)
    IN  [S7 EXCEPT !.els[i].valueSource = "property"]

\* set value without the comparison of its first line
SetValue_NoFastPath(S, i, newValue) == StoreValue(S, i, newValue)

\* set value
SetValue(S, i, newValue) ==
    IF S.els[i].value = newValue THEN S ELSE StoreValue(S, i, newValue)

\* the part of set checked after the radio sweep: mirror into the bound
\* input, derive the value, restore the provenance tag
CheckedMirror(S, i, newChecked) ==
    LET e   == S.els[i]
        inp == e.input
        S1  == IF /\ inp # NoInput
                  /\ S.inputs[inp].tag = "input"
                  /\ S.inputs[inp].type = e.formControl.control
                  /\ e.checkedSource # "input"
               THEN Log([S EXCEPT !.inputs[inp].checked = newChecked],
                        "input.checked", i)
               ELSE S
        S2  == [S1 EXCEPT !.els[i].valueSource = "checked"]
        S3  == Call(S2, "SetValue", i, IF newChecked
                               THEN (IF e.initialValue # Null THEN e.initialValue
                                     ELSE <<"o", "n">>)
                               ELSE Null)
    IN  [S3 EXCEPT !.els[i].checkedSource = "property"]

\* radio.checked = false on a swept FormControlElement: its own setter, whose
\* sweep block is skipped because the new state is false
UncheckHost(S, j) ==
    IF S.els[j].internals.ariaChecked # Nil /\ Checked(S.els[j]) = FALSE THEN S
    ELSE CheckedMirror([S EXCEPT !.els[j].internals.ariaChecked = "false"], j, FALSE)

\* the name the sweep queries for: `[name="${this.#formControl.name}"]`
QueryName(e) == IF Has(e.formControl, "name") THEN e.formControl.name ELSE "undefined"

\* a sweep that does not compare form owners
SweepSees_AnyForm(S, i, j) ==
    /\ j # i
    /\ S.els[j].connected
    /\ S.els[j].nameAttr = QueryName(S.els[i])

\* host j is returned by parent.querySelectorAll and passes the ownership test
\* of the sweep run by host i
SweepSees(S, i, j) ==
    /\ j # i
    /\ S.els[j].connected
    /\ S.els[j].nameAttr = QueryName(S.els[i])
    /\ FormOf(S.els[i]) = FormOf(S.els[j])

NativeSeen(S, i, n) ==
    /\ S.natives[n].name = QueryName(S.els[i])
    /\ FormOf(S.els[i]) = S.natives[n].form

RECURSIVE SweepHosts(_, _, _)
SweepHosts(S, i, j) ==
    IF j > NumElems THEN S
    ELSE SweepHosts(IF /\ SweepSees(S, i, j)
                       /\ S.els[j].internals.role = "radio"
                       /\ Checked(S.els[j])
                    THEN UncheckHost(S, j) ELSE S,
                    i, j + 1)

SweepNatives(S, i) ==
    [S EXCEPT !.natives =
        [n \in DOMAIN S.natives |->
            IF /\ NativeSeen(S, i, n)
               /\ (S.natives[n].role = "radio" \/ S.natives[n].type = "radio")
               /\ S.natives[n].checked
            THEN [S.natives[n] EXCEPT !.checked = FALSE]
            ELSE S.natives[n]]]

RadioSweep(S, i) == SweepNatives(SweepHosts(S, i, 1), i)

\* set checked
SetChecked(S, i, newChecked) ==
    IF S.els[i].internals.ariaChecked # Nil /\ Checked(S.els[i]) = newChecked THEN S
    ELSE LET S1 == [S EXCEPT !.els[i].internals.ariaChecked = BoolStr(newChecked)]
             S2 == IF newChecked /\ S1.els[i].formControl.control = "radio"
                   THEN RadioSweep(S1, i) ELSE S1
         IN  CheckedMirror(S2, i, newChecked)

(* ------------------------- internals life cycle ----------------------- *)
UndefinedStr == <<"u", "n", "d", "e", "f", "i", "n", "e", "d">>

\* a reset that puts the properties back and leaves the ARIA state and the
\* listeners as they are
ResetInternals_KeepAria(S, i) ==
    SetMultiple(
        SetAccept(
            Call(Call(Call(SetPlaceholder(
                               SetReadOnly(Call(SetDisabled(S, i, FALSE),
                                                "SetRequired", i, FALSE),
                                           i, FALSE),
                               i, Null),
                           "SetMin", i, Null),
                      "SetMax", i, Null),
                 "SetStep", i, Null),
            i, Null),
        i, FALSE)

\* #resetInternals
ResetInternals(S, i) ==
    LET S1  == SetDisabled(S, i, FALSE)
        S2  == Call(S1, "SetRequired", i, FALSE)
        S3  == SetReadOnly(S2, i, FALSE)
        S4  == SetPlaceholder(S3, i, Null)
        S5  == Call(S4, "SetMin", i, Null)
        S6  == Call(S5, "SetMax", i, Null)
        S7  == Call(S6, "SetStep", i, Null)
        S8  == SetAccept(S7, i, Null)
        S9  == SetMultiple(S8, i, FALSE)
        f   == FormOf(S9.els[i])
    IN  [S9 EXCEPT
            !.els[i].internals.role = Nil,
            !.els[i].internals.ariaPressed = Nil,
            !.els[i].internals.ariaExpanded = Nil,
            !.els[i].internals.ariaHasPopup = Nil,
            !.els[i].internals.ariaAutoComplete = Nil,
            !.els[i].internals.ariaMultiSelectable = Nil,
            !.els[i].internals.ariaChecked = Nil,
            !.els[i].internals.ariaMultiLine = Nil,
            !.els[i].internals.ariaValueMin = Null,
            !.els[i].internals.ariaValueMax = Null,
            !.els[i].internals.ariaValueNow = Null,
            !.els[i].listeners = {},
            !.els[i].keydownForms = IF f = NoForm THEN @ ELSE @ \ {f}]

\* the switch of #initInternals on the control kind
InitByControl(S, i, form) ==
    LET d == S.els[i].formControl
        c == d.control
        pressable == [S EXCEPT !.els[i].internals.role = "button",
                               !.els[i].listeners = @ \cup {"mousedown", "mouseup"}]
    IN  CASE c = "file" ->
               [pressable EXCEPT
                   !.els[i].internals.ariaHasPopup = "dialog",
                   !.els[i].internals.ariaMultiSelectable =
                       BoolStr(OrElse(d, "multiple", d.multiple, FALSE))]
          [] c \in {"image", "button"} ->
               IF form = NoForm THEN pressable
               ELSE [pressable EXCEPT !.els[i].listeners = @ \cup {"click"},
                                      !.els[i].keydownForms = @ \cup {form}]
          [] c = "select" ->
               [S EXCEPT
                   !.els[i].internals.role = "combobox",
                   !.els[i].internals.ariaExpanded = "false",
                   !.els[i].internals.ariaHasPopup = "listbox",
                   !.els[i].internals.ariaAutoComplete = "list",
                   !.els[i].internals.ariaMultiSelectable =
                       BoolStr(OrElse(d, "multiple", d.multiple, FALSE))]
          [] c = "checkbox" ->
               Call([S EXCEPT !.els[i].internals.role = "checkbox",
                              !.els[i].checkedSource = "init-checkbox"],
                    "SetChecked", i,
                    OrElse(d, "checked", d.checked, FALSE)
                        \/ OrElse(d, "defaultChecked", d.defaultChecked, FALSE))
          [] c = "radio" ->
               Call([S EXCEPT !.els[i].internals.role = "radio",
                              !.els[i].checkedSource = "init-radio"],
                    "SetChecked", i,
                    OrElse(d, "checked", d.checked, FALSE)
                        \/ OrElse(d, "defaultChecked", d.defaultChecked, FALSE))
          [] c = "textarea" ->
               [S EXCEPT !.els[i].internals.role = "textbox",
                         !.els[i].internals.ariaMultiLine = "true"]
          [] c \in {"password", "email", "tel", "url", "search", "text"} ->
               [S EXCEPT !.els[i].internals.role = "textbox",
                         !.els[i].internals.ariaPlaceholder =
                             OrElse(d, "placeholder", d.placeholder, Null)]
          [] c \in {"number", "range", "time", "date", "datetime-local", "month", "week"} ->
               [S EXCEPT
                   !.els[i].internals.role = IF c = "range" THEN "slider" ELSE "spinbutton",
                   !.els[i].internals.ariaValueMin = OrElse(d, "min", d.min, UndefinedStr),
                   !.els[i].internals.ariaValueMax = OrElse(d, "max", d.max, UndefinedStr),
                   !.els[i].internals.ariaValueNow = OrElse(d, "step", d.step, UndefinedStr)]
          [] c = "hidden" ->
               [S EXCEPT !.els[i].internals.role = "none"]
          [] OTHER -> S

\* an initialisation that captures the host's current value as its initial
\* value
InitShared_CaptureCurrent(S, i, d) ==
    SetReadOnly(
        Call(SetDisabled(
                 SetName([S EXCEPT !.els[i].initialValue = S.els[i].value],
                         i, OrElse(d, "name", d.name, NoName)),
                 i, OrElse(d, "disabled", d.disabled, FALSE)),
             "SetRequired", i, OrElse(d, "required", d.required, FALSE)),
        i, OrElse(d, "readonly", d.readonly, FALSE))

\* #initInternals, the properties every kind has
InitShared(S, i, d) ==
    SetReadOnly(
        Call(SetDisabled(
                 SetName([S EXCEPT !.els[i].initialValue = OrElse(d, "value", d.value, Null)],
                         i, OrElse(d, "name", d.name, NoName)),
                 i, OrElse(d, "disabled", d.disabled, FALSE)),
             "SetRequired", i, OrElse(d, "required", d.required, FALSE)),
        i, OrElse(d, "readonly", d.readonly, FALSE))

\* #initInternals, if (isTextFormControl(...))
InitText(S, i, d) ==
    IF isTextFormControl(d)
    THEN SetPlaceholder(S, i, OrElse(d, "placeholder", d.placeholder, Null))
    ELSE S

\* #initInternals, if (isRangeOrNumberFormControl(...))
InitRange(S, i, d) ==
    IF isRangeOrNumberFormControl(d)
    THEN Call(Call(Call(S, "SetMin", i, OrElse(d, "min", d.min, Null)),
                   "SetMax", i, OrElse(d, "max", d.max, Null)),
              "SetStep", i, OrElse(d, "step", d.step, Null))
    ELSE S

\* #initInternals, if (control === 'file')
InitFile(S, i, d) ==
    IF d.control = "file"
    THEN SetAccept(S, i, OrElse(d, "accept", d.accept, Null))
    ELSE S

\* #initInternals, if (control === 'select' || control === 'file')
InitMultiple(S, i, d) ==
    IF d.control \in {"select", "file"}
    THEN SetMultiple(S, i, OrElse(d, "multiple", d.multiple, FALSE))
    ELSE S

\* #initInternals; the form is read before anything is assigned
InitInternals(S, i) ==
    InitByControl(
        Call(InitMultiple(
                 InitFile(
                     InitRange(
                         InitText(
                             InitShared(Call(S, "ResetInternals", i, Null),
                                        i, S.els[i].formControl),
                             i, S.els[i].formControl),
                         i, S.els[i].formControl),
                     i, S.els[i].formControl),
                 i, S.els[i].formControl),
             "UpdateValidity", i, Null),
        i, FormOf(S.els[i]))

\* set formControl
SetFormControl(S, i, d) ==
    Call([S EXCEPT !.els[i].formControl = d], "InitInternals", i, Null)

(* --------------------------- input binding ---------------------------- *)
\* tagnameMap of #updateInput; a control that is no key of it maps to
\* undefined
TagName(control) ==
    IF control = "textarea" THEN "textarea"
    ELSE IF control = "select" THEN "select"
    ELSE IF control \in {"text", "checkbox", "radio", "hidden", "password", "email",
                         "number", "tel", "url", "image", "file", "month", "week",
                         "date", "datetime-local", "color", "range", "time", "search"}
         THEN "input"
    ELSE Nil

\* the selector of #updateInput applied to one native control
Matches(inp, control) ==
    IF TagName(control) = "input"
    THEN /\ inp.tag = "input"
         /\ \/ inp.hasType /\ inp.type = control
            \/ control = "text" /\ ~inp.hasType
    ELSE inp.tag = TagName(control)

\* this.shadowRoot?.querySelector(selector) ?? undefined: the first match in
\* tree order, which is the order of the ids
QueryInput(S, i) ==
    LET hits == {k \in DOMAIN S.inputs :
                    S.inputs[k].host = i /\ Matches(S.inputs[k], S.els[i].formControl.control)}
    IN  IF ~S.els[i].hasShadow \/ hits = {} THEN NoInput
        ELSE CHOOSE k \in hits : \A h \in hits : k <= h

\* #updateInput; _selector.endsWith on an undefined tag name is a TypeError
UpdateInput(S, i) ==
    IF S.els[i].formControl.control = "button" THEN S
    ELSE IF TagName(S.els[i].formControl.control) = Nil THEN [S EXCEPT !.threw = TRUE]
    ELSE LET input == QueryInput(S, i)
             S1 == IF input # NoInput
                   THEN [S EXCEPT !.inputs[input].listeners = @ \cup {i}] ELSE S
             S2 == [S1 EXCEPT !.els[i].input = input]
         IN  Call(Call(S2, "ResetInternals", i, Null), "InitInternals", i, Null)

\* #syncValue without the provenance tag of its second line
SyncValue_NoTag(S, i) ==
    LET inp == S.els[i].input
    IN  IF inp = NoInput THEN [S EXCEPT !.threw = TRUE]
        ELSE LET input == S.inputs[inp]
                 S2 == Call(S, "SetValue", i, input.value)
             IN  IF input.tag = "input" /\ input.type \in {"checkbox", "radio"}
                 THEN Call([S2 EXCEPT !.els[i].checkedSource = "input"],
                           "SetChecked", i, S2.inputs[inp].checked)
                 ELSE S2

\* #syncValue, the listener of the bound control's input and change events
SyncValue(S, i) ==
    LET inp == S.els[i].input
    IN  IF inp = NoInput THEN [S EXCEPT !.threw = TRUE]
        ELSE LET input == S.inputs[inp]
                 S1 == [S EXCEPT !.els[i].valueSource = "input"]
                 S2 == Call(S1, "SetValue", i, input.value)
             IN  IF input.tag = "input" /\ input.type \in {"checkbox", "radio"}
                 THEN Call([S2 EXCEPT !.els[i].checkedSource = "input"],
                           "SetChecked", i, S2.inputs[inp].checked)
                 ELSE S2

(* ------------------------- event handlers ----------------------------- *)
\* a #handleSubmit that requests submission whatever the kind and the type are
HandleSubmit_AnyType(S, i, prevented) ==
    IF FormOf(S.els[i]) = NoForm THEN S
    ELSE Log(Log(S, "queueMicrotask", i), "requestSubmit", i)

\* #handleSubmit(event) together with the microtask it queues.  The form and
\* the type are read when the handler runs; prevented is event.defaultPrevented
\* when the microtask runs.
HandleSubmit(S, i, prevented) ==
    LET d    == S.els[i].formControl
        form == FormOf(S.els[i])
        type == OrElse(d, "type", d.type, IF form = NoForm THEN "button" ELSE "submit")
    IN  IF d.control # "button" /\ d.control # "image" THEN S
        ELSE IF type # "submit" \/ Disabled(S.els[i]) THEN S
        ELSE IF prevented \/ form = NoForm THEN Log(S, "queueMicrotask", i)
        ELSE Log(Log(S, "queueMicrotask", i), "requestSubmit", i)

\* #handleClickSubmit
HandleClickSubmit(S, i, prevented) == HandleSubmit(S, i, prevented)

\* #handleKeyboardSubmit
HandleKeyboardSubmit(S, i, key, prevented) ==
    IF key = "Enter" THEN HandleSubmit(S, i, prevented) ELSE S

\* #handleButtonPressed
HandleButtonPressed(S, i) == [S EXCEPT !.els[i].internals.ariaPressed = "true"]

\* #handleButtonReleased
HandleButtonReleased(S, i) == [S EXCEPT !.els[i].internals.ariaPressed = "false"]

(* ---------------------------- callbacks ------------------------------- *)
\* a reset that re-initialises without restoring the value or checked state
FormResetCallback_KeepValue(S, i) == Call(S, "InitInternals", i, Null)

\* formResetCallback
FormResetCallback(S, i) ==
    LET d  == S.els[i].formControl
        S1 == IF Has(d, "defaultChecked")
              THEN Call([S EXCEPT !.els[i].checkedSource = "reset"],
                        "SetChecked", i, d.defaultChecked)
              ELSE Call([S EXCEPT !.els[i].valueSource = "reset"],
                        "SetValue", i, S.els[i].initialValue)
    IN  Call(S1, "InitInternals", i, Null)

\* The form-associated callbacks of the class are formResetCallback alone: it
\* defines no formDisabledCallback, so a fieldset that is disabled or enabled
\* around the host runs no code of the host.
FormDisabledCallback(S, i, disabled) == S

\* connectedCallback, its two observe calls
Observe(S, i) ==
    IF S.threw THEN S
    ELSE [S EXCEPT !.els[i].observing = TRUE,
                   !.els[i].observingShadow = S.els[i].hasShadow]

\* connectedCallback
ConnectedCallback(S, i) ==
    Observe(Call(Call(S, "InitInternals", i, Null), "UpdateInput", i, Null), i)

\* disconnectedCallback
DisconnectedCallback(S, i) ==
    LET S1  == Call(S, "ResetInternals", i, Null)
        inp == S1.els[i].input
        S2  == [S1 EXCEPT !.els[i].observing = FALSE,
                          !.els[i].observingShadow = FALSE,
                          !.els[i].mutations = FALSE]
    IN  IF inp # NoInput THEN [S2 EXCEPT !.inputs[inp].listeners = @ \ {i}] ELSE S2

\* an attributeChangedCallback that reflects the value attribute only
AttributeChangedText_ValueOnly(S, i, name, oldValue, newValue) ==
    IF oldValue = newValue \/ name # "value" THEN S
    ELSE Call([S EXCEPT !.els[i].valueSource = "attribute"], "SetValue", i, newValue)

\* attributeChangedCallback(name, oldValue, newValue) for the attributes whose
\* new value is text or null
AttributeChangedText(S, i, name, oldValue, newValue) ==
    IF oldValue = newValue THEN S
    ELSE CASE name = "value" ->
                Call([S EXCEPT !.els[i].valueSource = "attribute"], "SetValue", i, newValue)
           [] name = "placeholder" -> SetPlaceholder(S, i, newValue)
           [] name = "role" -> SetRole(S, i, newValue)
           [] name = "min" -> Call(S, "SetMin", i, newValue)
           [] name = "max" -> Call(S, "SetMax", i, newValue)
           [] name = "step" -> Call(S, "SetStep", i, newValue)
           [] OTHER -> S

\* attributeChangedCallback for the boolean attributes: bool is newValue !== null
AttributeChangedBool(S, i, name, bool) ==
    CASE name = "checked" ->
            Call([S EXCEPT !.els[i].checkedSource = "attribute"], "SetChecked", i, bool)
      [] name = "disabled" -> SetDisabled(S, i, bool)
      [] name = "required" -> Call(S, "SetRequired", i, bool)
      [] name = "readonly" -> SetReadOnly(S, i, bool)
      [] OTHER -> S

\* attributeChangedCallback('name', ...): newValue ?? undefined
AttributeChangedName(S, i, oldValue, newValue) ==
    IF oldValue = newValue THEN S
    ELSE [S EXCEPT !.els[i].name = IF newValue = NoAttr THEN NoName ELSE newValue]

\* the methods of a host by name; arg carries what the method is given besides
\* the host.  A handler that entered a loop that never ends, or threw, runs
\* nothing more.
Call(S, method, i, arg) ==
    IF S.hung \/ S.threw THEN S
    ELSE
    CASE method = "UpdateValidity" -> UpdateValidity(S, i)
      [] method = "SetRequired" -> SetRequired(S, i, arg)
      [] method = "SetMin" -> SetMin(S, i, arg)
      [] method = "SetMax" -> SetMax(S, i, arg)
      [] method = "SetStep" -> SetStep(S, i, arg)
      [] method = "SetPattern" -> SetPattern(S, i, arg)
      [] method = "SetMinLength" -> SetMinLength(S, i, arg)
      [] method = "SetMaxLength" -> SetMaxLength(S, i, arg)
      [] method = "SetValue" -> SetValue(S, i, arg)
      [] method = "SetChecked" -> SetChecked(S, i, arg)
      [] method = "ResetInternals" -> ResetInternals(S, i)
      [] method = "InitInternals" -> InitInternals(S, i)
      [] method = "SetFormControl" -> SetFormControl(S, i, arg)
      [] method = "UpdateInput" -> UpdateInput(S, i)
      [] method = "SyncValue" -> SyncValue(S, i)
      [] method = "FormResetCallback" -> FormResetCallback(S, i)
      [] method = "ConnectedCallback" -> ConnectedCallback(S, i)
      [] method = "DisconnectedCallback" -> DisconnectedCallback(S, i)
      [] method = "AttributeChangedText" ->
            AttributeChangedText(S, i, arg[1], arg[2], arg[3])
      [] method = "AttributeChangedBool" -> AttributeChangedBool(S, i, arg[1], arg[2])

(* ------------------------------- state -------------------------------- *)
VARIABLES
    els,      \* host id -> FormControlElement
    inputs,   \* input id -> native control of a shadow tree
    natives,  \* native radio/checkbox inputs of the light DOM
    fx,       \* the side effects of the last handler: <<kind, host>> pairs
    hung,     \* a handler entered a loop that never ends
    threw,    \* the last handler ended with an uncaught exception
    scope,    \* the state of one rendered Scope component
    op        \* the last operation and its arguments

vars == <<els, inputs, natives, fx, hung, threw, scope, op>>

\* no Scope is rendered
NoScope ==
    [mounted |-> FALSE, allHrefs |-> <<>>, cache |-> {}, hrefStates |-> <<>>,
     closure |-> <<>>, hrefsLoaded |-> FALSE, fired |-> {}, loads |-> 0,
     detail |-> <<>>]

NewNative(type, name, form) ==
    [type |-> type, name |-> name, form |-> form, role |-> Nil, checked |-> FALSE]

Op(name, el, text, bool) == [name |-> name, el |-> el, text |-> text, bool |-> bool]

\* the state a handler starts from: an empty effect log
Start == [els |-> els, inputs |-> inputs, natives |-> natives,
          fx |-> {}, hung |-> hung, threw |-> FALSE]

Commit(S, o) ==
    /\ els' = S.els
    /\ inputs' = S.inputs
    /\ natives' = S.natives
    /\ fx' = S.fx
    /\ hung' = S.hung
    /\ threw' = S.threw
    /\ scope' = scope
    /\ op' = o

InitWith(nativeChoices) ==
    /\ els = [i \in Elems |-> NewElement]
    /\ inputs = [k \in InputIds |-> NewInput("input", "text", TRUE)]
    /\ natives \in [NativeIds -> nativeChoices]
    /\ fx = {}
    /\ hung = FALSE
    /\ threw = FALSE
    /\ scope = NoScope
    /\ op = Op("new", 0, Null, FALSE)

(* ------------------------------ actions ------------------------------- *)
\* the host is inserted into the document, under form f or under no form
Connect(i, f) ==
    /\ ~hung /\ ~els[i].connected
    /\ Commit(Call([Start EXCEPT !.els[i].connected = TRUE,
                                              !.els[i].form = f], "ConnectedCallback", i, Null),
              Op("connect", i, Null, FALSE))

\* the host is removed from the document
Disconnect(i) ==
    /\ ~hung /\ els[i].connected
    /\ Commit(Call([Start EXCEPT !.els[i].connected = FALSE,
                                 !.els[i].form = NoForm],
                   "DisconnectedCallback", i, Null),
              Op("disconnect", i, Null, FALSE))

\* a native control is appended to the host's shadow tree; an observed
\* shadow root queues the mutation callback
AppendInput(i, tag, type, hasType) ==
    /\ ~hung /\ els[i].hasShadow /\ inputs[i].host = 0
    /\ Commit([Start EXCEPT !.inputs[i] = [NewInput(tag, type, hasType) EXCEPT !.host = i],
                            !.els[i].mutations = @ \/ els[i].observingShadow],
              Op("append", i, Null, FALSE))

\* a child is appended to host i in the light DOM
LightChange(i) ==
    /\ ~hung /\ els[i].observing /\ ~els[i].mutations
    /\ Commit([Start EXCEPT !.els[i].mutations = TRUE], Op("light", i, Null, FALSE))

\* the mutation observer's callback (a microtask)
MutationCallback(i) ==
    /\ ~hung /\ els[i].mutations
    /\ Commit(Call([Start EXCEPT !.els[i].mutations = FALSE], "UpdateInput", i, Null),
              Op("mutation", i, Null, FALSE))

AssignFormControl(i, d) ==
    /\ ~hung
    /\ Commit(Call(Start, "SetFormControl", i, d), Op("formControl", i, Null, FALSE))

AssignValue(i, v) ==
    /\ ~hung
    /\ Commit(Call(Start, "SetValue", i, v), Op("value", i, v, FALSE))

AssignChecked(i, b) ==
    /\ ~hung
    /\ Commit(Call(Start, "SetChecked", i, b), Op("checked", i, Null, b))

AssignName(i, n) ==
    /\ ~hung
    /\ Commit(SetName(Start, i, n), Op("name", i, Null, FALSE))

AssignRequired(i, b) ==
    /\ ~hung
    /\ Commit(Call(Start, "SetRequired", i, b), Op("required", i, Null, b))

AssignDisabled(i, b) ==
    /\ ~hung
    /\ Commit(SetDisabled(Start, i, b), Op("disabled", i, Null, b))

AssignPattern(i, v) ==
    /\ ~hung
    /\ Commit(Call(Start, "SetPattern", i, v), Op("pattern", i, v, FALSE))

AssignMinLength(i, n) ==
    /\ ~hung
    /\ Commit(Call(Start, "SetMinLength", i, n), Op("minLength", i, Null, FALSE))

AssignMaxLength(i, n) ==
    /\ ~hung
    /\ Commit(Call(Start, "SetMaxLength", i, n), Op("maxLength", i, Null, FALSE))

AssignCustomValidity(i, message) ==
    /\ ~hung
    /\ Commit(SetCustomValidity(Start, i, message), Op("customValidity", i, message, FALSE))

\* setAttribute('value', v) / removeAttribute('value') (v = Null)
AttrValue(i, v) ==
    /\ ~hung
    /\ Commit(Call([Start EXCEPT !.els[i].attrs.value = v], "AttributeChangedText", i,
                   <<"value", els[i].attrs.value, v>>),
              Op("attr:value", i, v, FALSE))

\* setAttribute(name, v) / removeAttribute(name) (v = null) for placeholder,
\* role, min, max and step
AttrText(i, name, v) ==
    /\ ~hung
    /\ Commit(Call([Start EXCEPT !.els[i].attrs[name] = v], "AttributeChangedText", i,
                   <<name, els[i].attrs[name], v>>),
              Op("attr:" \o name, i, Null, FALSE))

\* setAttribute(name, '') / removeAttribute(name) for a boolean attribute; a
\* second setAttribute with the same string is cut by oldValue === newValue
AttrBool(i, name, b) ==
    /\ ~hung /\ els[i].attrs[name] # b
    /\ Commit(Call([Start EXCEPT !.els[i].attrs[name] = b], "AttributeChangedBool", i,
                   <<name, b>>),
              Op("attr:" \o name, i, Null, b))

\* setAttribute('name', n) / removeAttribute('name') (n = NoAttr)
AttrName(i, n) ==
    /\ ~hung
    /\ Commit(AttributeChangedName([Start EXCEPT !.els[i].nameAttr = n], i,
                                   els[i].nameAttr, n),
              Op("attr:name", i, Null, FALSE))

\* one listener of an event: what it throws is reported and does not stop the
\* listeners after it
Listener(S, R) == [R EXCEPT !.threw = @ \/ S.threw]

\* an input or change event of native control k: every registered #syncValue
RECURSIVE DispatchFrom(_, _, _)
DispatchFrom(S, k, i) ==
    IF i > NumElems THEN S
    ELSE DispatchFrom(IF i \in S.inputs[k].listeners
                      THEN Listener(S, Call([S EXCEPT !.threw = FALSE], "SyncValue", i, Null))
                      ELSE S,
                      k, i + 1)

DispatchEvent(S, k) == DispatchFrom(S, k, 1)

\* the user edits the text of native control k: the browser sets its value and
\* fires input
UserInput(k, v) ==
    /\ ~hung /\ inputs[k].host # 0
    /\ ~(inputs[k].tag = "input" /\ inputs[k].type \in {"checkbox", "radio"})
    /\ ~inputs[k].disabled /\ ~inputs[k].readonly
    /\ inputs[k].value # v
    /\ Commit(DispatchEvent([Start EXCEPT !.inputs[k].value = v], k),
              Op("input", k, v, FALSE))

\* the user clicks native checkbox or radio k: the browser flips it (a radio
\* only turns on) and fires input
UserToggle(k) ==
    /\ ~hung /\ inputs[k].host # 0
    /\ inputs[k].tag = "input" /\ inputs[k].type \in {"checkbox", "radio"}
    /\ ~inputs[k].disabled
    /\ inputs[k].type = "radio" => ~inputs[k].checked
    /\ Commit(DispatchEvent([Start EXCEPT !.inputs[k].checked = ~@], k),
              Op("input", k, Null, ~inputs[k].checked))

\* a change event (or a repeated input event) of native control k: nothing of
\* the control has changed since the last event
UserChange(k) ==
    /\ ~hung /\ inputs[k].host # 0
    /\ Commit(DispatchEvent(Start, k), Op("change", k, Null, FALSE))

\* form.reset(): formResetCallback of every host the form owns, in tree order
RECURSIVE ResetFrom(_, _, _)
ResetFrom(S, f, i) ==
    IF i > NumElems THEN S
    ELSE ResetFrom(IF FormOf(S.els[i]) = f THEN Call(S, "FormResetCallback", i, Null) ELSE S,
                   f, i + 1)

FormReset(f) ==
    /\ ~hung /\ \E i \in Elems : FormOf(els[i]) = f
    /\ Commit(ResetFrom(Start, f, 1), Op("reset", f, Null, FALSE))

\* a fieldset around host i becomes disabled or enabled
FieldsetDisabled(i, disabled) ==
    /\ ~hung /\ els[i].connected
    /\ Commit(FormDisabledCallback(Start, i, disabled), Op("formDisabled", i, Null, disabled))

\* the user turns a native light-DOM radio or checkbox on
NativeCheck(n) ==
    /\ ~hung /\ ~natives[n].checked
    /\ Commit([Start EXCEPT !.natives[n].checked = TRUE], Op("native", n, Null, TRUE))

\* How an event reaches its listeners.  One dispatched by script (click(),
\* dispatchEvent) runs every listener before any microtask; one the browser
\* dispatches for the user runs the microtasks a listener queued as soon as
\* that listener returns.  A listener of the page calls preventDefault before
\* the host's listener runs ("early"), after it ("late"), or not at all.
DispatchModes == {"script", "user"}
CancelPoints == {"none", "early", "late"}

\* event.defaultPrevented when the microtask of the host's listener runs
PreventedAtMicrotask(mode, cancel) ==
    cancel = "early" \/ (mode = "script" /\ cancel = "late")

\* a click event on host i
Click(i, mode, cancel) ==
    /\ ~hung /\ els[i].connected
    /\ Commit(IF "click" \in els[i].listeners
              THEN HandleClickSubmit(Start, i, PreventedAtMicrotask(mode, cancel))
              ELSE Start,
              Op("click", i, <<mode, cancel>>, cancel # "none"))

\* a keydown event that reaches form f: the keydown listener of every host
\* that registered one on f
RECURSIVE KeydownFrom(_, _, _, _, _)
KeydownFrom(S, f, key, prevented, i) ==
    IF i > NumElems THEN S
    ELSE KeydownFrom(IF f \in S.els[i].keydownForms
                     THEN HandleKeyboardSubmit(S, i, key, prevented) ELSE S,
                     f, key, prevented, i + 1)

Keydown(f, key, mode, cancel) ==
    /\ ~hung
    /\ Commit(KeydownFrom(Start, f, key, PreventedAtMicrotask(mode, cancel), 1),
              Op("keydown:" \o key, f, <<mode, cancel>>, cancel # "none"))

\* a mousedown or mouseup event on host i
Mouse(i, down) ==
    /\ ~hung /\ els[i].connected
    /\ Commit(IF (IF down THEN "mousedown" ELSE "mouseup") \in els[i].listeners
              THEN (IF down THEN HandleButtonPressed(Start, i)
                    ELSE HandleButtonReleased(Start, i))
              ELSE Start,
              Op(IF down THEN "mousedown" ELSE "mouseup", i, Null, FALSE))

(* ------------------- specification: radio groups ---------------------- *)
\* Hosts that are put into the document under one of the forms or under none
\* and carry radio or checkbox descriptors of one name, checked by script;
\* beside them one native radio or checkbox of that name.
RadioDescriptors ==
    {[BlankDescriptor EXCEPT !.control = c, !.name = "g", !.checked = TRUE,
                             !.keys = {"control", "name"} \cup ck] :
        c \in {"radio", "checkbox"}, ck \in {{}, {"checked"}}}

RadioNatives ==
    {NewNative(t, "g", f) : t \in {"radio", "checkbox"}, f \in {NoForm} \cup Forms}

InitRadio == InitWith(RadioNatives)

NextRadio ==
    \/ \E i \in Elems, f \in {NoForm} \cup Forms : Connect(i, f)
    \/ \E i \in Elems, d \in RadioDescriptors :
            els[i].connected /\ AssignFormControl(i, d)
    \/ \E i \in Elems, b \in BOOLEAN : els[i].connected /\ AssignChecked(i, b)
    \/ \E n \in NativeIds : NativeCheck(n)

SpecRadio == InitRadio /\ [][NextRadio]_vars

\* C2: when checked = true is assigned on a radio host, every other host and
\* every native input that has another form owner (another form, or none
\* against one), and every one whose role is not radio, keeps its checked state.
C2_SweepFrame ==
    [][(op'.name = "checked" /\ op'.bool /\ els[op'.el].formControl.control = "radio")
        => /\ \A j \in Elems \ {op'.el} :
                (FormOf(els[j]) # FormOf(els[op'.el]) \/ els[j].internals.role # "radio")
                    => Checked(els'[j]) = Checked(els[j])
           /\ \A n \in NativeIds :
                (natives[n].form # FormOf(els[op'.el]) \/ natives[n].type # "radio")
                    => natives'[n].checked = natives[n].checked]_vars

\* a radio host has just been checked by script while a checked radio host of
\* its name sits under another form owner and a checked native of its name,
\* a checkbox or under another form owner, sits beside it
C2_Witness ==
    /\ op.name = "checked" /\ op.bool
    /\ els[op.el].formControl.control = "radio"
    /\ <<"setFormValue", op.el>> \in fx
    /\ \E j \in Elems \ {op.el} :
            /\ els[j].connected /\ els[j].internals.role = "radio"
            /\ els[j].nameAttr = els[op.el].nameAttr
            /\ FormOf(els[j]) # FormOf(els[op.el])
            /\ Checked(els[j])
    /\ \E n \in NativeIds :
            /\ natives[n].checked /\ natives[n].name = els[op.el].nameAttr
            /\ natives[n].type # "radio" \/ natives[n].form # FormOf(els[op.el])

(* ------------------ specification: renamed radio hosts ---------------- *)
\* Radio hosts outside any form, renamed and checked by script.
GroupNames == {"g", "h"}

GroupDescriptors ==
    {[BlankDescriptor EXCEPT !.control = "radio", !.name = "g",
                             !.keys = {"control", "name"}]}

InitGroup == InitWith({NewNative("radio", "g", NoForm)})

NextGroup ==
    \/ \E i \in Elems : Connect(i, NoForm)
    \/ \E i \in Elems, d \in GroupDescriptors :
            els[i].connected /\ AssignFormControl(i, d)
    \/ \E i \in Elems, b \in BOOLEAN : els[i].connected /\ AssignChecked(i, b)
    \/ \E i \in Elems, n \in GroupNames : els[i].connected /\ AssignName(i, n)

SpecGroup == InitGroup /\ [][NextGroup]_vars

\* hosts i and j are radio controllers of one group: both in the document,
\* both of role radio, of one name and one form owner
SameGroup(i, j) ==
    /\ i # j
    /\ els[i].connected /\ els[j].connected
    /\ els[i].internals.role = "radio" /\ els[j].internals.role = "radio"
    /\ els[i].name # NoName /\ els[i].name = els[j].name
    /\ FormOf(els[i]) = FormOf(els[j])

\* C1: after checked = true is assigned on a radio host, that host is checked
\* and every other member of its group, the radio hosts of the same name and
\* form owner, is unchecked.
C1_RadioExclusive ==
    (op.name = "checked" /\ op.bool /\ els[op.el].connected
        /\ els[op.el].internals.role = "radio")
        => /\ Checked(els[op.el])
           /\ \A j \in Elems : SameGroup(op.el, j) => ~Checked(els[j])

(* ------------- specification: a text control and its input ------------ *)
\* One host of a text kind under a form, a native text input appended to
\* its shadow tree, and every way its value changes: the host property, the
\* value attribute, the user typing, change events and form reset.
\* the host the single-host specifications drive: the first one
FirstHost == CHOOSE i \in Elems : \A j \in Elems : i <= j
SyncHost == FirstHost
SyncValues == {<<>>, <<"a">>, <<"b">>}

TextDescriptors ==
    {[BlankDescriptor EXCEPT !.control = "text", !.keys = {"control"}],
     [BlankDescriptor EXCEPT !.control = "text", !.value = <<"a">>, !.required = TRUE,
                             !.keys = {"control", "value", "required"}]}

InitSync == InitWith({NewNative("radio", "g", NoForm)})

NextSync ==
    \/ Connect(SyncHost, 1)
    \/ AppendInput(SyncHost, "input", "text", TRUE)
    \/ MutationCallback(SyncHost)
    \/ \E d \in TextDescriptors : AssignFormControl(SyncHost, d)
    \/ \E v \in SyncValues \cup {Null} : AssignValue(SyncHost, v)
    \/ \E v \in {Null, <<"a">>} : AttrValue(SyncHost, v)
    \/ \E b \in BOOLEAN : AssignRequired(SyncHost, b)
    \/ \E b \in BOOLEAN : AttrBool(SyncHost, "required", b)
    \/ \E b \in BOOLEAN : AssignDisabled(SyncHost, b)
    \/ \E v \in SyncValues : UserInput(SyncHost, v)
    \/ UserChange(SyncHost)
    \/ FormReset(1)

SpecSync == InitSync /\ [][NextSync]_vars

\* the native control k is the bound input of host i and reports to it
Bound(i, k) == els[i].input = k /\ i \in inputs[k].listeners

\* C3: after an input or change event of the bound text input, the host's
\* value is the input's value and the handler has not written the input's value.
C3_RoundTrip ==
    (op.name \in {"input", "change"} /\ Bound(SyncHost, op.el))
        => /\ els[SyncHost].value = inputs[op.el].value
           /\ <<"input.value", SyncHost>> \notin fx

\* the user has typed into the bound input and the host took the new text
C3_Witness ==
    /\ op.name = "input" /\ Bound(SyncHost, op.el)
    /\ op.text = <<"b">> /\ els[SyncHost].value = <<"b">>
    /\ <<"setFormValue", SyncHost>> \in fx

\* C5: after the host property value is assigned a text other than the
\* current one while an input is bound, the bound input's value is that text.
C5_HostValueMirrored ==
    (op.name = "value" /\ op.text # Null /\ <<"setFormValue", op.el>> \in fx
        /\ els[op.el].input # NoInput)
        => inputs[els[op.el].input].value = op.text

\* C7: assigning the host property value the value it already has changes no
\* element and no input, and has no effect: no setFormValue, no write to the
\* bound input, no setValidity, no warning.
C7_ValueNoOp ==
    [][(op'.name = "value" /\ els[op'.el].value = op'.text)
        => (els' = els /\ inputs' = inputs /\ natives' = natives /\ fx' = {})]_vars

\* a disabled host with a bound input has been assigned the value it has
C7_Witness ==
    /\ op.name = "value" /\ fx = {}
    /\ els[op.el].value = op.text /\ op.text # Null
    /\ els[op.el].input # NoInput
    /\ Bound(op.el, els[op.el].input)
    /\ Disabled(els[op.el])

\* C16: assigning a new value to a disabled host stores it as the host's value
\* and form value, warns on the console, and leaves the disabled state of the
\* host and of its bound input as it was.
C16_EditWhileDisabled ==
    [][(op'.name = "value" /\ Disabled(els[op'.el]) /\ els[op'.el].value # op'.text)
        => /\ els'[op'.el].value = op'.text
           /\ els'[op'.el].internals.formValue = op'.text
           /\ <<"warn", op'.el>> \in fx'
           /\ Disabled(els'[op'.el])
           /\ els'[op'.el].input = els[op'.el].input
           /\ els[op'.el].input # NoInput
                => inputs'[els[op'.el].input].disabled
                     = inputs[els[op'.el].input].disabled]_vars

\* a disabled host with a disabled bound input has just taken a new value
C16_Witness ==
    /\ op.name = "value" /\ <<"warn", op.el>> \in fx
    /\ <<"setFormValue", op.el>> \in fx
    /\ Disabled(els[op.el])
    /\ els[op.el].input # NoInput
    /\ inputs[els[op.el].input].disabled
    /\ els[op.el].value = <<"b">>

\* C9: in every state, valueMissing is true exactly when the host is required
\* and its value is null or the empty string.
C9_ValueMissing ==
    \A i \in Elems :
        els[i].internals.validity.valueMissing
            = (Required(els[i]) /\ els[i].value \in {Null, <<>>})

\* the user has emptied the bound input of a required host
C9_Witness ==
    /\ op.name = "input" /\ op.text = <<>>
    /\ Bound(SyncHost, op.el)
    /\ Required(els[SyncHost]) /\ els[SyncHost].value = <<>>
    /\ els[SyncHost].internals.validity.valueMissing

\* C13: after form.reset() on a host that is not a checkbox or radio, the
\* host's value and the form value it submitted are the value of the most
\* recently assigned descriptor, or null when the descriptor carries none.
C13_ResetRestoresValue ==
    (/\ op.name = "reset" /\ FormOf(els[SyncHost]) = op.el
     /\ els[SyncHost].formControl.control \notin {"checkbox", "radio"}
     /\ ~Has(els[SyncHost].formControl, "defaultChecked"))
        => /\ els[SyncHost].value
                = OrElse(els[SyncHost].formControl, "value",
                         els[SyncHost].formControl.value, Null)
           /\ els[SyncHost].internals.formValue = els[SyncHost].value

\* the form was reset after the value had moved away from the descriptor's
\* value, and the reset stored that value again
C13_Witness ==
    /\ op.name = "reset" /\ FormOf(els[SyncHost]) = op.el
    /\ Has(els[SyncHost].formControl, "value")
    /\ els[SyncHost].formControl.value = <<"a">>
    /\ els[SyncHost].value = <<"a">>
    /\ <<"setFormValue", SyncHost>> \in fx

(* ------------ specification: a checkbox and its input ----------------- *)
\* One host of kind checkbox under a form with a native checkbox appended to
\* its shadow tree, checked by script, by attribute and by the user.
CheckboxDescriptors ==
    {[BlankDescriptor EXCEPT !.control = "checkbox", !.keys = {"control"}],
     [BlankDescriptor EXCEPT !.control = "checkbox", !.value = <<"a">>,
                             !.defaultChecked = TRUE,
                             !.keys = {"control", "value", "defaultChecked"}],
     [BlankDescriptor EXCEPT !.control = "checkbox", !.checked = TRUE,
                             !.defaultChecked = FALSE,
                             !.keys = {"control", "checked", "defaultChecked"}],
     [BlankDescriptor EXCEPT !.control = "checkbox", !.checked = FALSE,
                             !.defaultChecked = TRUE,
                             !.keys = {"control", "checked", "defaultChecked"}]}

InitToggle == InitWith({NewNative("radio", "g", NoForm)})

NextToggle ==
    \/ Connect(SyncHost, 1)
    \/ AppendInput(SyncHost, "input", "checkbox", TRUE)
    \/ LightChange(SyncHost)
    \/ MutationCallback(SyncHost)
    \/ \E d \in CheckboxDescriptors : AssignFormControl(SyncHost, d)
    \/ \E b \in BOOLEAN : AssignChecked(SyncHost, b)
    \/ \E b \in BOOLEAN : AttrBool(SyncHost, "checked", b)
    \/ \E v \in {Null, <<"a">>} : AssignValue(SyncHost, v)
    \/ UserToggle(SyncHost)
    \/ UserChange(SyncHost)
    \/ FormReset(1)

SpecToggle == InitToggle /\ [][NextToggle]_vars

\* C4: while it handles an input or change event of its bound input, the host
\* writes neither the value nor the checked property of that input.
C4_NoBounce ==
    (op.name \in {"input", "change"} /\ Bound(SyncHost, op.el))
        => /\ <<"input.value", SyncHost>> \notin fx
           /\ <<"input.checked", SyncHost>> \notin fx

\* C6: after the host property checked is assigned on a checkbox host whose
\* bound input is a checkbox, the input's checked is the assigned value.
C6_HostCheckedMirrored ==
    (op.name = "checked" /\ els[op.el].input # NoInput
        /\ els[op.el].formControl.control = "checkbox"
        /\ inputs[els[op.el].input].type = "checkbox")
        => inputs[els[op.el].input].checked = op.bool

\* C14: after form.reset() on a checkbox or radio host, checked is the
\* descriptor's defaultChecked, false when the descriptor carries none,
\* whatever else the descriptor carries and whatever checked was before.
C14_ResetRestoresChecked ==
    (/\ op.name = "reset" /\ FormOf(els[SyncHost]) = op.el
     /\ els[SyncHost].formControl.control \in {"checkbox", "radio"})
        => Checked(els[SyncHost])
             = OrElse(els[SyncHost].formControl, "defaultChecked",
                      els[SyncHost].formControl.defaultChecked, FALSE)

(* --------------- specification: validity of one host ------------------ *)
\* One host without a bound input, its kind text, number or week, and every
\* setter that feeds #updateValidity.
ValHost == FirstHost

Week2020_01 == <<"2", "0", "2", "0", "-", "W", "0", "1">>
Week2021_01 == <<"2", "0", "2", "1", "-", "W", "0", "1">>
Week2021_02 == <<"2", "0", "2", "1", "-", "W", "0", "2">>
Week2021_09 == <<"2", "0", "2", "1", "-", "W", "0", "9">>
Week2021_10 == <<"2", "0", "2", "1", "-", "W", "1", "0">>
Week2021_11 == <<"2", "0", "2", "1", "-", "W", "1", "1">>
Week2021_52 == <<"2", "0", "2", "1", "-", "W", "5", "2">>
Week2022_01 == <<"2", "0", "2", "2", "-", "W", "0", "1">>

ValidityDescriptors ==
    {[BlankDescriptor EXCEPT !.control = "text", !.keys = {"control"}],
     [BlankDescriptor EXCEPT !.control = "number", !.min = <<"0">>,
                             !.max = <<"1", "0">>, !.step = <<"3">>,
                             !.keys = {"control", "min", "max", "step"}],
     [BlankDescriptor EXCEPT !.control = "week", !.min = Week2021_01,
                             !.max = Week2021_52,
                             !.keys = {"control", "min", "max"}],
     [BlankDescriptor EXCEPT !.control = "week", !.min = Week2021_09,
                             !.max = Week2021_10,
                             !.keys = {"control", "min", "max"}]}

ValidityValues ==
    {Null, <<>>, <<"a", "b">>, <<"5">>, <<"1", "2">>,
     Week2020_01, Week2021_02, Week2021_09, Week2021_10, Week2021_11, Week2022_01}

InitValidity == InitWith({NewNative("radio", "g", NoForm)})

NextValidity ==
    \/ \E d \in ValidityDescriptors : AssignFormControl(ValHost, d)
    \/ \E v \in ValidityValues : AssignValue(ValHost, v)
    \/ \E b \in BOOLEAN : AssignRequired(ValHost, b)
    \/ \E v \in {Null, <<"a">>} : AssignPattern(ValHost, v)
    \/ \E n \in {NullLen, 3} : AssignMinLength(ValHost, n)
    \/ \E n \in {NullLen, 1} : AssignMaxLength(ValHost, n)
    \/ \E m \in {<<>>, <<"c">>} : AssignCustomValidity(ValHost, m)

SpecValidity == InitValidity /\ [][NextValidity]_vars

\* the order in which the contract lists the flags
PrecedenceOrder ==
    <<"customError", "valueMissing", "rangeUnderflow", "rangeOverflow", "stepMismatch",
      "badInput", "patternMismatch", "tooLong", "tooShort">>

\* the message template that belongs to each computed flag
FlagTemplate ==
    [valueMissing |-> MISSING_MESSAGE[1], rangeUnderflow |-> RANGE_UNDERFLOW_MESSAGE,
     rangeOverflow |-> RANGE_OVERFLOW_MESSAGE, stepMismatch |-> STEP_MISMATCH_MESSAGE,
     badInput |-> TYPE_MISMATCH_MESSAGE[1], patternMismatch |-> PATTERN_MISMATCH_MESSAGE[1],
     tooLong |-> TOO_LONG_MESSAGE, tooShort |-> TOO_SHORT_MESSAGE,
     customError |-> "custom"]

Templates == {FlagTemplate[k] : k \in FlagNames \ {"customError"}}

\* which flag's message a validationMessage is
TemplateOf(m) ==
    IF m = <<>> THEN "none" ELSE IF m[1] \in Templates THEN m[1] ELSE "custom"

TrueFlags(e) == {k \in 1..Len(PrecedenceOrder) : e.internals.validity[PrecedenceOrder[k]]}
FirstOf(ks) == CHOOSE k \in ks : \A h \in ks : k <= h
LastOf(ks) == CHOOSE k \in ks : \A h \in ks : k >= h

IsWeekText(v) ==
    /\ v # Null /\ Len(v) = 8
    /\ v[5] = "-" /\ v[6] = "W"
    /\ \A k \in {1, 2, 3, 4, 7, 8} : IsDigit(v[k])
WeekYear(v) == DigitsValue(SubSeq(v, 1, 4))
WeekOfYear(v) == DigitsValue(SubSeq(v, 7, 8))
EarlierWeek(a, b) ==
    \/ WeekYear(a) < WeekYear(b)
    \/ WeekYear(a) = WeekYear(b) /\ WeekOfYear(a) < WeekOfYear(b)

\* C10: whenever a week host with min and max has computed its validity for a
\* value YYYY-Www, rangeUnderflow is true exactly when the value is an earlier
\* week than min, rangeOverflow exactly when it is a later week than max, no
\* flag is true otherwise, and the underflow message carries min as given.
C10_WeekRange ==
    \A i \in Elems :
        LET host  == els[i]
            desc  == host.formControl
            flags == host.internals.validity
            under == EarlierWeek(host.value, desc.min)
            over  == EarlierWeek(desc.max, host.value)
        IN  (/\ desc.control = "week" /\ Has(desc, "min") /\ Has(desc, "max")
             /\ IsWeekText(host.value)
             /\ <<"setValidity", i>> \in fx /\ op.name # "customValidity")
            => /\ flags.rangeUnderflow = under
               /\ flags.rangeOverflow = over
               /\ (~under /\ ~over) => ~AnyFlag(flags)
               /\ (under /\ ~over)
                    => host.internals.validationMessage
                         = parseVariables(RANGE_UNDERFLOW_MESSAGE, <<desc.min>>)

\* a week host with min 2021-W01 and max 2021-W52 has been given 2020-W01
C10_Witness ==
    /\ op.name = "value" /\ op.text = Week2020_01
    /\ els[ValHost].formControl.control = "week"
    /\ els[ValHost].formControl.min = Week2021_01
    /\ els[ValHost].internals.validity.rangeUnderflow
    /\ els[ValHost].internals.validationMessage
            = parseVariables(RANGE_UNDERFLOW_MESSAGE, <<Week2021_01>>)

(* ------------- specification: steps of a number control --------------- *)
\* One host of kind number without a bound input; its descriptor carries a
\* min, a positive step and sometimes a max, and its value is set by script.
StepHost == FirstHost

StepDescriptors ==
    {[BlankDescriptor EXCEPT !.control = "number", !.min = mn, !.max = <<"2", "0">>,
                             !.step = st, !.keys = {"control", "min", "step"} \cup mk] :
        mn \in {<<"1">>, <<"1", "0">>}, st \in {<<"1">>, <<"3">>},
        mk \in {{}, {"max"}}}

StepValues ==
    {Null, <<"4">>, <<"9">>, <<"1", "4">>, <<"1", "5", ".", "5">>, <<"1", "6">>,
     <<"2", "1">>}

InitStep == InitWith({NewNative("radio", "g", NoForm)})

NextStep ==
    \/ \E d \in StepDescriptors : AssignFormControl(StepHost, d)
    \/ \E v \in StepValues : AssignValue(StepHost, v)
    \/ \E b \in BOOLEAN : AssignRequired(StepHost, b)

SpecStep == InitStep /\ [][NextStep]_vars

\* the host is a number control whose min, step and value are numbers
NumericStep(i) ==
    /\ els[i].formControl.control = "number"
    /\ Has(els[i].formControl, "min") /\ Has(els[i].formControl, "step")
    /\ els[i].value # Null
    /\ ~IsNaN(Numbers(els[i]).min) /\ ~IsNaN(Numbers(els[i]).step)
    /\ ~IsNaN(Numbers(els[i]).value)
    /\ Numbers(els[i]).step.v > 0

\* the distance from the host's min to its value, in hundredths
FromMin(i) == Numbers(els[i]).value.v - Numbers(els[i]).min.v

\* C11: for a number control with numeric min, step and value, stepMismatch
\* is true exactly when value - min is not an integer multiple of step.
C11_StepFromMin ==
    \A i \in Elems :
        NumericStep(i)
            => els[i].internals.validity.stepMismatch
                 = (FromMin(i) % Numbers(els[i]).step.v # 0)

\* the greatest value min + k*step (k >= 0) below the host's value, and the
\* least one above it, in hundredths; the value lies above min
GridBelow(i) ==
    IF FromMin(i) % Numbers(els[i]).step.v = 0
    THEN Numbers(els[i]).value.v - Numbers(els[i]).step.v
    ELSE Numbers(els[i]).min.v
            + (FromMin(i) \div Numbers(els[i]).step.v) * Numbers(els[i]).step.v

GridAbove(i) ==
    Numbers(els[i]).min.v
        + ((FromMin(i) \div Numbers(els[i]).step.v) + 1) * Numbers(els[i]).step.v

\* C12: whenever stepMismatch is reported for a number control with a min and
\* a positive step, whether or not max is given, the message cites the
\* greatest value min + k*step below the value and the least one above it.
C12_NearestCited ==
    \A i \in Elems :
        (NumericStep(i) /\ FromMin(i) > 0 /\ els[i].internals.validity.stepMismatch)
            => els[i].internals.validationMessage
                 = parseVariables(STEP_MISMATCH_MESSAGE,
                                  <<NumToStr(Num(GridBelow(i))), NumToStr(Num(GridAbove(i)))>>)

(* ------------------- custom validity of one host ---------------------- *)
\* C15: right after setCustomValidity(m), customError is true exactly when m
\* is not the empty string, and validationMessage is m; the empty string
\* clears customError.
C15_CustomValidity ==
    op.name = "customValidity"
        => /\ els[op.el].internals.validity.customError = (op.text # <<>>)
           /\ els[op.el].internals.validationMessage = op.text

\* a custom message has just been set on a host that was invalid for another
\* reason
C15_Witness ==
    /\ op.name = "customValidity" /\ op.text = <<"c">>
    /\ els[op.el].internals.validity.customError
    /\ els[op.el].internals.validationMessage = <<"c">>
    /\ ComputedFlags(els[op.el]).valueMissing

(* --------------- specification: a button and its form ----------------- *)
\* One host that is moved between the forms and the document, given button,
\* image and text descriptors, disabled and enabled, clicked, and reached by
\* the keydown events of the forms.
SubmitHost == FirstHost

SubmitDescriptors ==
    {[BlankDescriptor EXCEPT !.control = "button", !.type = t,
                             !.keys = {"control", "type"}] :
        t \in {"submit", "button", "reset"}}
    \cup {[BlankDescriptor EXCEPT !.control = c, !.keys = {"control"}] :
            c \in {"button", "image", "text"}}
    \cup {[BlankDescriptor EXCEPT !.control = "text", !.type = "submit",
                                  !.keys = {"control", "type"}]}

InitSubmit == InitWith({NewNative("radio", "g", NoForm)})

NextSubmit ==
    \/ \E f \in {NoForm} \cup Forms : Connect(SubmitHost, f)
    \/ Disconnect(SubmitHost)
    \/ \E d \in SubmitDescriptors : AssignFormControl(SubmitHost, d)
    \/ \E b \in BOOLEAN : AssignDisabled(SubmitHost, b)
    \/ \E m \in DispatchModes, c \in CancelPoints : Click(SubmitHost, m, c)
    \/ \E f \in Forms, k \in {"Enter", "a"}, m \in DispatchModes, c \in CancelPoints :
            Keydown(f, k, m, c)
    \/ \E b \in BOOLEAN : Mouse(SubmitHost, b)
    \/ \E b \in BOOLEAN : FieldsetDisabled(SubmitHost, b)

SpecSubmit == InitSubmit /\ [][NextSubmit]_vars

\* C17: for a form-owned host whose submit handler ran on a click or an Enter
\* keydown, requestSubmit is called after every listener of the event has
\* finished, and exactly when the event is not defaultPrevented by then.
C17_DeferredSubmit ==
    \A i \in Elems :
        (/\ op.name \in {"click", "keydown:Enter"}
         /\ <<"queueMicrotask", i>> \in fx
         /\ FormOf(els[i]) # NoForm)
            => (<<"requestSubmit", i>> \in fx) = ~op.bool

\* the type a button or image descriptor has in effect: submit under a form
\* and button outside one when the descriptor names none
EffectiveType(e) ==
    OrElse(e.formControl, "type", e.formControl.type,
           IF FormOf(e) = NoForm THEN "button" ELSE "submit")

AriaHost == FirstHost

AriaKinds ==
    {"text", "password", "textarea", "select", "checkbox", "radio", "button",
     "image", "file", "number", "range", "week", "hidden", "color", "unknown"}

AriaDescriptors ==
    {[BlankDescriptor EXCEPT !.control = c, !.keys = {"control"}] : c \in AriaKinds}
    \cup {[BlankDescriptor EXCEPT !.control = "text", !.placeholder = <<"p">>,
                                  !.keys = {"control", "placeholder"}],
          [BlankDescriptor EXCEPT !.control = "select", !.multiple = TRUE,
                                  !.keys = {"control", "multiple"}],
          [BlankDescriptor EXCEPT !.control = "checkbox", !.checked = TRUE,
                                  !.keys = {"control", "checked"}]}

InitAria == InitWith({NewNative("radio", "g", NoForm)})

NextAria ==
    \/ \E d \in AriaDescriptors : AssignFormControl(AriaHost, d)
    \/ \E b \in BOOLEAN : Mouse(AriaHost, b)
    \/ \E b \in BOOLEAN : AssignChecked(AriaHost, b)
    \/ Connect(AriaHost, 1)
    \/ Disconnect(AriaHost)
    \/ AppendInput(AriaHost, "input", "text", TRUE)
    \/ MutationCallback(AriaHost)

SpecAria == InitAria /\ [][NextAria]_vars

\* the role the contract's mapping gives each kind
RoleFor(c) ==
    CASE c \in {"text", "password", "email", "tel", "url", "search", "textarea"} -> "textbox"
      [] c = "select" -> "combobox"
      [] c = "checkbox" -> "checkbox"
      [] c = "radio" -> "radio"
      [] c \in {"button", "image", "file"} -> "button"
      [] c \in {"number", "time", "date", "datetime-local", "month", "week"} -> "spinbutton"
      [] c = "range" -> "slider"
      [] c = "hidden" -> "none"
      [] OTHER -> Nil

\* C19: right after a descriptor is assigned, the role is the one of the
\* descriptor's kind, and every ARIA extra of a kind is null unless the
\* descriptor's own kind has it, whatever descriptors came before.
C19_AriaFromLastDescriptor ==
    op.name = "formControl" =>
        /\ els[op.el].internals.role = RoleFor(els[op.el].formControl.control)
        /\ els[op.el].formControl.control # "select"
            => /\ els[op.el].internals.ariaExpanded = Nil
               /\ els[op.el].internals.ariaAutoComplete = Nil
        /\ els[op.el].formControl.control \notin {"select", "file"}
            => /\ els[op.el].internals.ariaHasPopup = Nil
               /\ els[op.el].internals.ariaMultiSelectable = Nil
        /\ els[op.el].formControl.control # "textarea"
            => els[op.el].internals.ariaMultiLine = Nil
        /\ els[op.el].formControl.control \notin {"checkbox", "radio"}
            => els[op.el].internals.ariaChecked = Nil
        /\ ~isTextFormControl(els[op.el].formControl)
            => els[op.el].internals.ariaPlaceholder = Null
        /\ els[op.el].internals.ariaPressed = Nil

\* a text descriptor was assigned to a host that had been a checked checkbox
\* (its value is still the checkbox's "on")
C19_Witness ==
    /\ op.name = "formControl"
    /\ els[op.el].formControl.control = "text"
    /\ els[op.el].internals.role = "textbox"
    /\ els[op.el].value = <<"o", "n">>
    /\ els[op.el].internals.ariaChecked = Nil

\* C20: with a descriptor whose control is no recognized kind, no operation
\* throws, neither the assignment nor a later connect or mutation callback,
\* and the internals are neutral: no role and no ARIA extra of any kind.
C20_UnknownControlDegrades ==
    (/\ els[AriaHost].formControl.control = "unknown"
     /\ op.name \in {"formControl", "connect", "mutation"})
        => /\ ~threw
           /\ els[AriaHost].internals.role = Nil
           /\ els[AriaHost].internals.ariaExpanded = Nil
           /\ els[AriaHost].internals.ariaHasPopup = Nil
           /\ els[AriaHost].internals.ariaAutoComplete = Nil
           /\ els[AriaHost].internals.ariaMultiLine = Nil
           /\ els[AriaHost].internals.ariaChecked = Nil
           /\ els[AriaHost].internals.ariaPlaceholder = Null

\* C21: assigning to a host the descriptor that was assigned to it in the step
\* before leaves its value, checked state, initial value, role, ARIA state,
\* form value, validity flags and validation message as the first assignment
\* left them.
C21_AssignTwice ==
    [][(/\ op.name = "formControl" /\ op'.name = "formControl" /\ op'.el = op.el
        /\ els'[op.el].formControl = els[op.el].formControl)
        => /\ els'[op.el].value = els[op.el].value
           /\ els'[op.el].initialValue = els[op.el].initialValue
           /\ els'[op.el].internals = els[op.el].internals]_vars

\* a descriptor of a checked checkbox has just been assigned to a host that
\* was unchecked before; the host is checked and carries the value "on"
C21_Witness ==
    /\ op.name = "formControl"
    /\ els[op.el].formControl.control = "checkbox"
    /\ Has(els[op.el].formControl, "checked")
    /\ Checked(els[op.el])
    /\ els[op.el].value = <<"o", "n">>
    /\ <<"setFormValue", op.el>> \in fx

(* ------------------------ fieldsets and forms ------------------------- *)
\* C22: after a fieldset around the host has been disabled or enabled, the
\* host's disabled ARIA state, and with it its disabled getter, is that state.
C22_FieldsetDisable ==
    op.name = "formDisabled" => Disabled(els[op.el]) = op.bool

(* ---------------------- attribute reflection -------------------------- *)
\* One host, with or without a bound text input, whose observed attributes are
\* set and removed by script between descriptor and property assignments.
AttrHost == FirstHost

AttrDescriptors ==
    {[BlankDescriptor EXCEPT !.control = "number", !.min = <<"1">>,
                             !.keys = {"control", "min"}]}

TextAttrs == {"placeholder", "min", "max", "step"}
BoolAttrs == {"checked", "disabled", "required", "readonly"}

InitAttr == InitWith({NewNative("radio", "g", NoForm)})

\* at most MaxAttrs observed attributes are on the host at a time
MaxAttrs == 1
AttrCount(host) ==
    Cardinality({name \in DOMAIN NoAttrs : host.attrs[name] # NoAttrs[name]})
        + (IF host.nameAttr = NoAttr THEN 0 ELSE 1)

NextAttr ==
    \/ Connect(AttrHost, 1)
    \/ AppendInput(AttrHost, "input", "text", TRUE)
    \/ MutationCallback(AttrHost)
    \/ \E desc \in AttrDescriptors : AssignFormControl(AttrHost, desc)
    \/ \E v \in {Null, <<"2">>} :
            AttrValue(AttrHost, v) /\ AttrCount(els'[AttrHost]) <= MaxAttrs
    \/ \E name \in TextAttrs, v \in {Null, <<"2">>} :
            AttrText(AttrHost, name, v) /\ AttrCount(els'[AttrHost]) <= MaxAttrs
    \/ \E r \in {Nil, "button"} :
            AttrText(AttrHost, "role", r) /\ AttrCount(els'[AttrHost]) <= MaxAttrs
    \/ \E name \in BoolAttrs, b \in BOOLEAN :
            AttrBool(AttrHost, name, b) /\ AttrCount(els'[AttrHost]) <= MaxAttrs
    \/ \E n \in {NoAttr, "g"} :
            AttrName(AttrHost, n) /\ AttrCount(els'[AttrHost]) <= MaxAttrs
    \/ AssignValue(AttrHost, <<"7">>)

SpecAttr == InitAttr /\ [][NextAttr]_vars

\* the property of the host that goes with an observed attribute
PropertyOf(host, name) ==
    CASE name = "value" -> host.value
      [] name = "placeholder" -> host.internals.ariaPlaceholder
      [] name = "role" -> host.internals.role
      [] name = "min" -> host.internals.ariaValueMin
      [] name = "max" -> host.internals.ariaValueMax
      [] name = "step" -> host.internals.ariaValueNow
      [] name = "checked" -> Checked(host)
      [] name = "disabled" -> Disabled(host)
      [] name = "required" -> Required(host)
      [] name = "readonly" -> host.internals.ariaReadOnly = "true"

\* C23: a step that changes an observed attribute of the host leaves the
\* matching property equal to the new attribute: the string, or null once it is
\* removed, for value, placeholder, role, min, max and step; the string, or
\* undefined once removed, for name; true exactly when the attribute is present
\* for checked, disabled, required and readonly.
C23_AttributeReflected ==
    [][/\ \A name \in DOMAIN NoAttrs :
            els'[AttrHost].attrs[name] # els[AttrHost].attrs[name]
                => PropertyOf(els'[AttrHost], name) = els'[AttrHost].attrs[name]
       /\ (op'.name = "attr:name" /\ els'[AttrHost].nameAttr # els[AttrHost].nameAttr)
            => els'[AttrHost].name = IF els'[AttrHost].nameAttr = NoAttr THEN NoName
                                     ELSE els'[AttrHost].nameAttr]_vars

\* the step attribute has just been removed from a number host with a bound
\* input that had a value, after the disabled attribute had been set and removed
C23_Witness ==
    /\ op.name = "attr:step"
    /\ els[op.el].attrs.step = Null
    /\ els[op.el].internals.ariaDisabled = "false"
    /\ els[op.el].formControl.control = "number"
    /\ els[op.el].input # NoInput
    /\ els[op.el].value = <<"7">>

\* C27: on a host whose kind is neither checkbox nor radio, a step that assigns
\* checked, by the property or by the checked attribute, leaves the host's
\* value, the form value of its internals and its validity as they were.
C27_CheckedInert ==
    [][(/\ op'.name \in {"checked", "attr:checked"}
        /\ els[op'.el].formControl.control \notin {"checkbox", "radio"})
          => /\ els'[op'.el].value = els[op'.el].value
             /\ els'[op'.el].internals.formValue = els[op'.el].internals.formValue
             /\ els'[op'.el].internals.validity = els[op'.el].internals.validity]_vars

(* ----------------------- binding and rebinding ------------------------ *)
\* One host whose shadow root exists from the start or is attached later, and
\* two native controls that are inserted into and removed from its shadow tree
\* (tree order is the order of the ids) while the descriptor changes between
\* text and checkbox and the user edits the controls.
BindHost == FirstHost

BindDescriptors ==
    {[BlankDescriptor EXCEPT !.control = "text", !.keys = {"control"}],
     [BlankDescriptor EXCEPT !.control = "checkbox", !.keys = {"control"}]}

\* host.attachShadow(...)
AttachShadow(i) ==
    /\ ~hung /\ ~els[i].hasShadow
    /\ Commit([Start EXCEPT !.els[i].hasShadow = TRUE], Op("attachShadow", i, Null, FALSE))

\* a new native control becomes the k-th control of host i's shadow tree; an
\* observed shadow root queues the mutation callback
InsertInput(i, k, tag, type, hasType) ==
    /\ ~hung /\ els[i].hasShadow /\ inputs[k].host = 0
    /\ Commit([Start EXCEPT !.inputs[k] = [NewInput(tag, type, hasType) EXCEPT !.host = i],
                            !.els[i].mutations = @ \/ els[i].observingShadow],
              Op("insert", i, Null, FALSE))

\* the k-th control is removed from host i's shadow tree and dropped
RemoveInput(i, k) ==
    /\ ~hung /\ inputs[k].host = i
    /\ Commit([Start EXCEPT !.inputs[k] = NewInput("input", "text", TRUE),
                            !.els[i].mutations = @ \/ els[i].observingShadow],
              Op("remove", i, Null, FALSE))

InitBind ==
    /\ els \in {[i \in Elems |-> [NewElement EXCEPT !.hasShadow = b]] : b \in BOOLEAN}
    /\ inputs = [k \in InputIds |-> NewInput("input", "text", TRUE)]
    /\ natives = [n \in NativeIds |-> NewNative("radio", "g", NoForm)]
    /\ fx = {}
    /\ hung = FALSE
    /\ threw = FALSE
    /\ scope = NoScope
    /\ op = Op("new", 0, Null, FALSE)

NextBind ==
    \/ Connect(BindHost, 1)
    \/ Disconnect(BindHost)
    \/ AttachShadow(BindHost)
    \/ \E k \in InputIds : InsertInput(BindHost, k, "input", "text", TRUE)
    \/ InsertInput(BindHost, FirstHost, "input", "checkbox", TRUE)
    \/ \E k \in InputIds : RemoveInput(BindHost, k)
    \/ LightChange(BindHost)
    \/ MutationCallback(BindHost)
    \/ \E desc \in BindDescriptors : AssignFormControl(BindHost, desc)
    \/ \E k \in InputIds : UserInput(k, <<"a">>)
    \/ \E k \in InputIds : UserChange(k)

SpecBind == InitBind /\ [][NextBind]_vars

\* the element the current descriptor's selector resolves to in the shadow tree
Resolved(i) == QueryInput([els |-> els, inputs |-> inputs], i)

\* C24: once a child-list change of the shadow tree of a connected host has
\* happened and no mutation callback is pending for it, the bound input is the
\* first control of the shadow tree that matches the descriptor's selector, or
\* none when nothing matches; also when the shadow root was attached after the
\* host was connected.
C24_RebindFollowsTree ==
    (/\ op.name \in {"insert", "remove", "mutation"}
     /\ els[op.el].connected /\ ~els[op.el].mutations /\ ~threw)
        => els[op.el].input = Resolved(op.el)

\* C25: an input or change event of a control the host listened to, but which
\* re-resolution has replaced as the bound input by another control or by
\* none, changes neither the host's value nor its checked state and raises no
\* error.
C25_ListenersTornDown ==
    [][(/\ op'.name \in {"input", "change"}
        /\ BindHost \in inputs[op'.el].listeners
        /\ els[BindHost].input # op'.el)
          => /\ els'[BindHost].value = els[BindHost].value
             /\ Checked(els'[BindHost]) = Checked(els[BindHost])
             /\ ~threw']_vars

\* C26: right after a descriptor has been assigned on a connected host, the
\* bound input is the control of the shadow tree that matches the new kind's
\* selector, or none when nothing matches.
C26_AssignRebinds ==
    (op.name = "formControl" /\ els[op.el].connected)
        => els[op.el].input = Resolved(op.el)

(* --------------------- checked and the submitted value ---------------- *)
\* The checkbox host of SpecToggle reached by descriptor assignments, checked
\* assignments, form resets and the events of its bound input only.
NextChecked ==
    \/ Connect(SyncHost, 1)
    \/ AppendInput(SyncHost, "input", "checkbox", TRUE)
    \/ MutationCallback(SyncHost)
    \/ \E desc \in CheckboxDescriptors : AssignFormControl(SyncHost, desc)
    \/ \E b \in BOOLEAN : AssignChecked(SyncHost, b)
    \/ UserToggle(SyncHost)
    \/ UserChange(SyncHost)
    \/ FormReset(1)

SpecChecked == InitToggle /\ [][NextChecked]_vars

\* the value a checkbox or radio host submits by its checked state
SubmittedValue(host) ==
    IF Checked(host)
    THEN (IF host.initialValue = Null THEN <<"o", "n">> ELSE host.initialValue)
    ELSE Null

\* C28: in every state of a checkbox or radio host, its value and the form
\* value of its internals are null when it is unchecked and its initial value,
\* or 'on' when that is null, when it is checked.
C28_CheckedDeterminesValue ==
    els[SyncHost].formControl.control \in {"checkbox", "radio"}
        => /\ els[SyncHost].value = SubmittedValue(els[SyncHost])
           /\ els[SyncHost].internals.formValue = SubmittedValue(els[SyncHost])

(* ----------------------------- peekInternals -------------------------- *)
\* peekInternals(): the ElementInternals object of the host itself, no copy
PeekInternals(S, i) == S.els[i].internals

\* script assigns v to a property of the object peekInternals() returned:
\* the object is the host's #internals, so the host's state takes the write
PeekWrite(i, field, v) ==
    /\ ~hung
    /\ Commit([Start EXCEPT !.els[i].internals = [PeekInternals(Start, i) EXCEPT ![field] = v]],
              Op("peek:" \o field, i, Null, FALSE))

\* One host under a form whose descriptor and disabled property are
\* assigned and whose peeked internals are written by script.
PeekHost == FirstHost

PeekDescriptors ==
    {[BlankDescriptor EXCEPT !.control = "text", !.placeholder = <<"a">>,
                             !.keys = {"control", "placeholder"}],
     [BlankDescriptor EXCEPT !.control = "checkbox", !.checked = TRUE,
                             !.keys = {"control", "checked"}]}

NextPeek ==
    \/ Connect(PeekHost, 1)
    \/ Disconnect(PeekHost)
    \/ \E desc \in PeekDescriptors : AssignFormControl(PeekHost, desc)
    \/ \E b \in BOOLEAN : AssignDisabled(PeekHost, b)
    \/ \E b \in BOOLEAN : PeekWrite(PeekHost, "ariaDisabled", BoolStr(b))
    \/ PeekWrite(PeekHost, "ariaChecked", "true")
    \/ PeekWrite(PeekHost, "role", "button")
    \/ PeekWrite(PeekHost, "ariaPlaceholder", <<"9">>)

SpecPeek == InitToggle /\ [][NextPeek]_vars

\* C29: a step that writes to the object peekInternals() returned changes
\* none of checked, disabled, required, readOnly, role, placeholder, min, max
\* and step of the host.
C29_PeekReadOnly ==
    [][(op'.name \in {"peek:" \o field : field \in DOMAIN NewInternals})
         => \A name \in DOMAIN NoAttrs \ {"value"} :
                PropertyOf(els'[op'.el], name) = PropertyOf(els[op'.el], name)]_vars

(* ------------------- text constraints of the descriptor --------------- *)
\* One text host, with or without a bound text input, that is given
\* descriptors carrying pattern, minLength and maxLength and then values, by
\* script and by the user.
TextHost == FirstHost

ConstraintDescriptors ==
    {[BlankDescriptor EXCEPT !.control = "text", !.keys = {"control"}],
     [BlankDescriptor EXCEPT !.control = "text", !.pattern = <<"a">>,
                             !.keys = {"control", "pattern"}],
     [BlankDescriptor EXCEPT !.control = "text", !.minLength = 2,
                             !.keys = {"control", "minLength"}],
     [BlankDescriptor EXCEPT !.control = "text", !.maxLength = 1,
                             !.keys = {"control", "maxLength"}],
     [BlankDescriptor EXCEPT !.control = "search", !.pattern = <<"b">>,
                             !.minLength = 1, !.maxLength = 2, !.required = TRUE,
                             !.keys = {"control", "pattern", "minLength", "maxLength",
                                       "required"}]}

ConstraintValues == {<<>>, <<"a">>, <<"b">>, <<"a", "b">>, <<"b", "b", "b">>}

NextText ==
    \/ Connect(TextHost, 1)
    \/ Disconnect(TextHost)
    \/ AppendInput(TextHost, "input", "text", TRUE)
    \/ MutationCallback(TextHost)
    \/ \E desc \in ConstraintDescriptors : AssignFormControl(TextHost, desc)
    \/ \E v \in ConstraintValues \cup {Null} : AssignValue(TextHost, v)
    \/ \E v \in ConstraintValues : UserInput(TextHost, v)

SpecText == InitToggle /\ [][NextText]_vars

\* C30: on a text-like host that holds a string value and whose descriptor
\* carries a pattern, the flag patternMismatch is set exactly when the value
\* does not match it; with a minLength, tooShort exactly when the value is
\* shorter; with a maxLength, tooLong exactly when the value is longer.
C30_DescriptorConstraints ==
    (isTextFormControl(els[TextHost].formControl) /\ els[TextHost].value # Null) =>
        /\ Has(els[TextHost].formControl, "pattern")
            => els[TextHost].internals.validity.patternMismatch
                 = ~RegExpTest(els[TextHost].formControl.pattern, ToStr(els[TextHost].value))
        /\ Has(els[TextHost].formControl, "minLength")
            => els[TextHost].internals.validity.tooShort
                 = (Len(ToStr(els[TextHost].value)) < els[TextHost].formControl.minLength)
        /\ Has(els[TextHost].formControl, "maxLength")
            => els[TextHost].internals.validity.tooLong
                 = (Len(ToStr(els[TextHost].value)) > els[TextHost].formControl.maxLength)

(* ------------------- checked against defaultChecked ------------------- *)
\* C31: right after a checkbox or radio descriptor that carries checked has
\* been assigned, the host's checked state is that checked, whatever
\* defaultChecked the descriptor carries beside it.
C31_ExplicitCheckedWins ==
    (/\ op.name = "formControl"
     /\ els[op.el].formControl.control \in {"checkbox", "radio"}
     /\ Has(els[op.el].formControl, "checked"))
        => Checked(els[op.el]) = els[op.el].formControl.checked

(* --------------------------- provenance tags -------------------------- *)
\* C32: whenever a setter, an attribute callback, a reset callback or a
\* handler of the bound input's events has returned, both provenance tags of
\* the host are 'property'.
C32_TagsRestored ==
    ~hung => /\ els[SyncHost].valueSource = "property"
             /\ els[SyncHost].checkedSource = "property"

(* ------------------- custom validity and the flags -------------------- *)
\* C33: a call of setCustomValidity, with any message, leaves valueMissing,
\* rangeUnderflow, rangeOverflow, stepMismatch, badInput, patternMismatch,
\* tooLong and tooShort of the host as they were before the call.
C33_CustomKeepsFlags ==
    [][op'.name = "customValidity"
         => \A flag \in FlagNames \ {"customError"} :
                els'[op'.el].internals.validity[flag] = els[op'.el].internals.validity[flag]]_vars

(* ---------------- the message of the text constraints ----------------- *)
\* C34: among patternMismatch, tooLong and tooShort, taken in this order, the
\* last flag that is true supplies the validation message: the too-short
\* message with minLength when tooShort holds, else the too-long message with
\* maxLength when tooLong holds, else the pattern message.
C34_TextMessageOrder ==
    ~hung =>
        /\ els[ValHost].internals.validity.tooShort
            => els[ValHost].internals.validationMessage
                 = parseVariables(TOO_SHORT_MESSAGE, <<NatToStr(els[ValHost].minLength)>>)
        /\ (/\ els[ValHost].internals.validity.tooLong
            /\ ~els[ValHost].internals.validity.tooShort)
            => els[ValHost].internals.validationMessage
                 = parseVariables(TOO_LONG_MESSAGE, <<NatToStr(els[ValHost].maxLength)>>)
        /\ (/\ els[ValHost].internals.validity.patternMismatch
            /\ ~els[ValHost].internals.validity.tooLong
            /\ ~els[ValHost].internals.validity.tooShort)
            => els[ValHost].internals.validationMessage = PATTERN_MISMATCH_MESSAGE

\* minLength has just been set on a text host whose value already failed its
\* pattern: both flags hold and the message is the too-short one
C34_Witness ==
    /\ op.name = "minLength"
    /\ els[op.el].formControl.control = "text"
    /\ els[op.el].internals.validity.patternMismatch
    /\ els[op.el].internals.validity.tooShort
    /\ els[op.el].internals.validationMessage
         = parseVariables(TOO_SHORT_MESSAGE, <<NatToStr(els[op.el].minLength)>>)

(* ------------------ Scope: remote stylesheets loading ----------------- *)
\* One Scope rendered with a list of remote hrefs, some of them already in the
\* stylesheet cache; each link of a pending href fires its load event once, in
\* any order, with or without a sheet.
HrefLists ==
    {<<"a">>, <<"b">>, <<"a", "b">>, <<"b", "a">>, <<"a", "b", "c">>, <<"c", "a", "b">>}
Hrefs == {"a", "b", "c"}

\* pendingHrefs: the hrefs that are not in the stylesheet cache
PendingHrefs(allHrefs, cache) == SelectSeq(allHrefs, LAMBDA h : h \notin cache)

\* the first render of Scope: hrefStates starts from the pending hrefs, and
\* onHrefLoad is memoized with the hrefStates of this render in its closure
RenderScope(allHrefs, cache) ==
    LET pendingHrefs == PendingHrefs(allHrefs, cache)
        hrefStates == [k \in DOMAIN pendingHrefs |->
                          [href |-> pendingHrefs[k], loaded |-> FALSE]]
    IN  [mounted |-> TRUE, allHrefs |-> allHrefs, cache |-> cache,
         hrefStates |-> hrefStates, closure |-> hrefStates, hrefsLoaded |-> FALSE,
         fired |-> {}, loads |-> 0, detail |-> <<>>]

\* onHrefLoad for the link of href: it maps the hrefStates of its closure, and
\* the dependency list [allHrefs.join()] keeps the memoized callback, so the
\* closure is the one of the first render whatever was set since
OnHrefLoad(sc, href, hasSheet) ==
    LET _hrefStates == [k \in DOMAIN sc.closure |->
                           [href |-> sc.closure[k].href,
                            loaded |-> sc.closure[k].href = href \/ sc.closure[k].loaded]]
        all == \A k \in DOMAIN _hrefStates : _hrefStates[k].loaded
    IN  [sc EXCEPT !.cache = IF hasSheet THEN @ \cup {href} ELSE @,
                   !.hrefStates = _hrefStates,
                   !.hrefsLoaded = @ \/ all,
                   !.loads = IF all THEN @ + 1 ELSE @,
                   !.detail = IF all THEN sc.allHrefs ELSE @,
                   !.fired = @ \cup {href}]

Mount(allHrefs, cache) ==
    /\ ~scope.mounted
    /\ scope' = RenderScope(allHrefs, cache)
    /\ op' = Op("mount", 0, Null, FALSE)
    /\ UNCHANGED <<els, inputs, natives, fx, hung, threw>>

Unmount ==
    /\ scope.mounted
    /\ scope' = NoScope
    /\ op' = Op("unmount", 0, Null, FALSE)
    /\ UNCHANGED <<els, inputs, natives, fx, hung, threw>>

\* the load event of the link of a pending href
LinkLoad(href, hasSheet) ==
    /\ scope.mounted
    /\ \E k \in DOMAIN scope.hrefStates : scope.hrefStates[k].href = href
    /\ href \notin scope.fired
    /\ scope' = OnHrefLoad(scope, href, hasSheet)
    /\ op' = Op("load", 0, <<href>>, hasSheet)
    /\ UNCHANGED <<els, inputs, natives, fx, hung, threw>>

NextScope ==
    \/ \E allHrefs \in HrefLists, cache \in SUBSET Hrefs : Mount(allHrefs, cache)
    \/ Unmount
    \/ \E href \in Hrefs, hasSheet \in BOOLEAN : LinkLoad(href, hasSheet)

SpecScope == InitToggle /\ [][NextScope]_vars

\* the hrefs whose links the Scope rendered
LinkHrefs(sc) == {sc.hrefStates[k].href : k \in DOMAIN sc.hrefStates}

\* C35: once the links of all pending hrefs of a Scope, one or more, have
\* fired their load events, in any order, onLoad has been called and the load
\* event dispatched exactly once, with all hrefs of the Scope as detail.hrefs.
C35_LoadNotifiedOnce ==
    (scope.mounted /\ LinkHrefs(scope) # {} /\ scope.fired = LinkHrefs(scope))
        => scope.loads = 1 /\ scope.detail = scope.allHrefs

(* -------------------- persistence of a custom error ------------------- *)
\* C36: while a custom error is set, a step other than setCustomValidity (a
\* change of the value, of required, of a constraint or of the descriptor)
\* leaves customError true and the validation message the custom one.
C36_CustomErrorPersists ==
    [][(/\ els[ValHost].internals.validity.customError
        /\ op'.name # "customValidity")
         => /\ els'[ValHost].internals.validity.customError
            /\ els'[ValHost].internals.validationMessage
                 = els[ValHost].internals.validationMessage]_vars

(* ------------------ termination of the validity run ------------------- *)
\* One host of kind number without a bound input; its descriptor carries a
\* min and a step that is positive, zero or negative, and its value is set by
\* script.
TermDescriptors ==
    {[BlankDescriptor EXCEPT !.control = "number", !.min = mn, !.max = <<"2", "0">>,
                             !.step = st, !.keys = {"control", "min", "step"} \cup mk] :
        mn \in {<<"1">>, <<"1", "0">>}, st \in {<<"3">>, <<"0">>, <<"-", "1">>},
        mk \in {{}, {"max"}}}

NextTerm ==
    \/ \E desc \in TermDescriptors : AssignFormControl(StepHost, desc)
    \/ \E v \in StepValues : AssignValue(StepHost, v)
    \/ \E b \in BOOLEAN : AssignRequired(StepHost, b)

SpecTerm == InitStep /\ [][NextTerm]_vars

\* C37: every assignment of a value or of a number descriptor returns: the
\* host never stays inside the search for the nearest valid values, also with
\* a step of zero or below.
C37_ValidityTerminates == ~hung

(* ---------------- range validity and the current bounds --------------- *)
\* C38: right after the min or max attribute of a number, range or
\* date-family host has changed, rangeUnderflow holds exactly when the host
\* has a value below the min its getter returns, and rangeOverflow exactly
\* when it has a value above the max its getter returns.
C38_RangeFollowsBounds ==
    (/\ op.name \in {"attr:min", "attr:max"}
     /\ isRangeOrNumberFormControl(els[op.el].formControl) /\ ~hung)
        => /\ els[op.el].internals.validity.rangeUnderflow
                = (/\ els[op.el].value # Null
                   /\ PropertyOf(els[op.el], "min") # Null
                   /\ Lt(ConvertForComparison(els[op.el].formControl, els[op.el].value),
                         ConvertForComparison(els[op.el].formControl,
                                              PropertyOf(els[op.el], "min"))))
           /\ els[op.el].internals.validity.rangeOverflow
                = (/\ els[op.el].value # Null
                   /\ PropertyOf(els[op.el], "max") # Null
                   /\ Gt(ConvertForComparison(els[op.el].formControl, els[op.el].value),
                         ConvertForComparison(els[op.el].formControl,
                                              PropertyOf(els[op.el], "max"))))

(* ------------------ user state across a mutation ---------------------- *)
\* C39: a mutation callback that leaves a checkbox host bound to the input
\* it was bound to leaves the host's checked state and value as they were
\* before it.
C39_MutationKeepsState ==
    [][(/\ op'.name = "mutation" /\ op'.el = SyncHost
        /\ els[SyncHost].formControl.control = "checkbox"
        /\ els[SyncHost].input # NoInput
        /\ els'[SyncHost].input = els[SyncHost].input)
         => /\ Checked(els'[SyncHost]) = Checked(els[SyncHost])
            /\ els'[SyncHost].value = els[SyncHost].value]_vars

(* ------------------- the form a submission goes to -------------------- *)
\* C40: when an Enter keydown in a form makes a host request submission, the
\* form the host asks is the form the keydown occurred in.
C40_SubmitStaysWithForm ==
    \A i \in Elems :
        (/\ op.name = "keydown:Enter"
         /\ <<"requestSubmit", i>> \in fx)
            => FormOf(els[i]) = op.el

====
